---- MODULE Spec2Model ----
(***************************************************************************)
(* A model of tip, the command-line client for TiDB: the REPL loop and its *)
(* statement buffer, the shared connection handle, the statement           *)
(* classifier and executeSQL, the dot-command registry, and the embedded   *)
(* Lua interpreter with its asynchronous http.fetch.                       *)
(*                                                                         *)
(* Text is modelled as a sequence of tokens: a statement kind (the AST     *)
(* node type the parser yields for that statement), ";" (the terminator),  *)
(* " " and "\n" (white space) and "?" (text the grammar rejects).          *)
(*                                                                         *)
(* Specifications: Spec is a session of the REPL (main without -e),        *)
(* SpecOneShot is main with -e over every statement kind, SpecLua is the   *)
(* Lua bridge of lua_utils.go driven through its exported functions,       *)
(* SpecLoop is the event loop of lua_examples/test_http.lua over that      *)
(* bridge, SpecQuery is sql.query over the answers of the server,          *)
(* SpecRender is printResults and the result writers, SpecAsk is .ask with *)
(* its loading animation (SpecAskFair with the scheduler's fairness,       *)
(* SpecAskSession inside a session of the REPL), SpecGuard is the          *)
(* goroutines that read and write the shared connection handle,            *)
(* SpecComplete is tab completion with its metadata caches, SpecSplit is   *)
(* the split of a command line in handleCmd and SpecParse the tokenizer of *)
(* .lua-eval.  Of the line editor the state keeps the AppendHistory calls  *)
(* of the current iteration.                                               *)
(***************************************************************************)
EXTENDS Integers, Sequences, FiniteSets, TLC

(* ------------------------------ bounds --------------------------------- *)

\* sql.Open calls that leave a handle behind, per session
MaxHandles == 2
\* statements in a one-shot (-e) text
MaxStmts == 2
\* unterminated lines the statement buffer may hold
MaxBufLines == 1
\* rows a row-fetch returns, and rows an exec affects
MaxRows == 1
\* goroutines started by http.fetch
MaxWorkers == 2
\* rows of a result that is rendered
MaxOutRows == 2
\* characters of a column value
MaxValLen == 2
\* names a metadata query answers
MaxNames == 1
\* rows the database answers a query of a script with
MaxFetched == 2
\* characters of a command line after its dot
MaxLineLen == 7
\* characters of the text after the script of a .lua-eval line
MaxArgsLen == 5

(* --------------------------- program constants ------------------------- *)

\* a nil *sql.DB
Nil == 0

\* the double quote
Quote == "\""

\* ConnectCmd.Handle: the database used when none is given and none was used
DefaultDatabase == "test"

\* OutputFormat and its String() names
Formats == {"plain", "json", "table", "csv"}

\* parseOutputFormat: an unknown name falls back to plain
parseOutputFormat(format) ==
    CASE format = "json" -> "json"
      [] format = "table" -> "table"
      [] format = "csv" -> "csv"
      [] OTHER -> "plain"

(* ------------------------- statement classifier ------------------------ *)

DMLKinds == {"InsertStmt", "UpdateStmt", "DeleteStmt"}

DDLKinds ==
    {"CreateTableStmt", "AlterTableStmt", "DropTableStmt", "GrantStmt",
     "RevokeStmt", "TruncateTableStmt", "RenameTableStmt", "CreateIndexStmt",
     "CreateDatabaseStmt", "DropDatabaseStmt", "FlashBackDatabaseStmt",
     "AlterDatabaseStmt"}

TxnKinds == {"BeginStmt", "CommitStmt", "RollbackStmt"}

UseSetKinds == {"UseStmt", "SetStmt"}

\* statement kinds the switch of isQueryStmt does not list
OtherKinds == {"SelectStmt", "ShowStmt"}

StmtKinds == DMLKinds \cup DDLKinds \cup TxnKinds \cup UseSetKinds \cup OtherKinds

\* a mutant of isQueryStmt: the switch without the case of USE and SET
isQueryStmtWithoutUseSet(stmt) ==
    CASE stmt \in DMLKinds -> FALSE
      [] stmt \in DDLKinds -> FALSE
      [] stmt \in TxnKinds -> FALSE
      [] OTHER -> TRUE

\* isQueryStmt: the type switch over the statement node
isQueryStmt(stmt) ==
    CASE stmt \in DMLKinds -> FALSE
      [] stmt \in DDLKinds -> FALSE
      [] stmt \in TxnKinds -> FALSE
      [] stmt \in UseSetKinds -> FALSE
      [] OTHER -> TRUE

IsSpace(t) == t \in {" ", "\n"}

\* p.Parse: statements are separated by ";", an empty statement is skipped,
\* a "?" or two statements without a separator are a syntax error
RECURSIVE ParseFrom(_, _, _, _)
ParseFrom(text, i, cur, stmts) ==
    IF i > Len(text)
    THEN [err |-> FALSE, stmts |-> IF cur = "" THEN stmts ELSE Append(stmts, cur)]
    ELSE LET t == text[i] IN
         IF IsSpace(t) THEN ParseFrom(text, i + 1, cur, stmts)
         ELSE IF t = ";"
              THEN ParseFrom(text, i + 1, "",
                             IF cur = "" THEN stmts ELSE Append(stmts, cur))
         ELSE IF t = "?" \/ cur # "" THEN [err |-> TRUE, stmts |-> <<>>]
         ELSE ParseFrom(text, i + 1, t, stmts)

Parse(text) == ParseFrom(text, 1, "", <<>>)

\* the mutant of isQueryLoop: only the first statement decides
isQueryLoopFirstOnly(stmtNodes, i) ==
    IF i > Len(stmtNodes) THEN TRUE ELSE isQueryStmt(stmtNodes[i])

\* isQuery: the loop over the parsed statements, returning at the first
\* statement that is not a query
RECURSIVE isQueryLoop(_, _)
isQueryLoop(stmtNodes, i) ==
    IF i > Len(stmtNodes) THEN TRUE
    ELSE IF ~isQueryStmt(stmtNodes[i]) THEN FALSE
    ELSE isQueryLoop(stmtNodes, i + 1)

\* isQuery: (bool, error)
isQuery(stmt) ==
    LET r == Parse(stmt) IN
    IF r.err THEN [isQ |-> FALSE, err |-> TRUE]
    ELSE [isQ |-> isQueryLoop(r.stmts, 1), err |-> FALSE]

(* ------------------------------ strings -------------------------------- *)

RECURSIVE TrimLeft(_)
TrimLeft(s) == IF s # <<>> /\ IsSpace(Head(s)) THEN TrimLeft(Tail(s)) ELSE s

RECURSIVE TrimRight(_)
TrimRight(s) ==
    IF s # <<>> /\ IsSpace(s[Len(s)])
    THEN TrimRight(SubSeq(s, 1, Len(s) - 1))
    ELSE s

\* strings.TrimSpace
TrimSpace(s) == TrimRight(TrimLeft(s))

\* len(trimmedInput) > 0 && trimmedInput[len(trimmedInput)-1] == ';'
EndsWithSemicolon(trimmedInput) ==
    Len(trimmedInput) > 0 /\ trimmedInput[Len(trimmedInput)] = ";"

\* the lines held by the statement buffer (each was appended with its "\n")
BufLines(buf) == Cardinality({i \in 1..Len(buf) : buf[i] = "\n"})

(* ------------------------------- state --------------------------------- *)

VARIABLES
    pc,                 \* where the main goroutine is
    terminal,           \* isTerminal(): standard input is a terminal
    execSQL,            \* the -e flag's text, <<>> when not given
    handles,            \* every *sql.DB left by sql.Open: [open, database]
    globalDB,           \* the shared handle (an index of handles, or Nil)
    lastUsedDB,         \* the last used database
    startupDB,          \* the handle main's deferred Close() will close
    db,                 \* repl's parameter db
    curDB,              \* repl's local curDB
    prompt,             \* repl's local prompt
    queryBuilder,       \* repl's statement buffer
    globalOutputFormat, \* the process-wide output format
    replSuggestion,     \* the statement suggested for the next prompt
    last,               \* what the last step did (for the properties)
    globalLuaState,     \* the shared interpreter: "nil", "open"
    luaStateMutex,      \* luaStateMutex is locked
    luaRet,             \* where ExecuteLuaScript returns to
    worker,             \* the goroutines of http.fetch: worker[w] is its position
    sqlResult,          \* what the last sql.query or sql.execute gave the script
    render,             \* what is being rendered, and by which renderer
    sink,               \* the text written to standard output or the output file
    first,              \* JSONResultIOWriter.first
    anim,               \* where the goroutine of loadingAnimation is
    done,               \* the channel done of AskCmd.Handle
    globalDBLock,       \* the sync.RWMutex: [readers, writer]
    goroutine,          \* goroutine[g]: the accessor g runs, where it is in it
                        \* and how it holds globalDBLock
    access,             \* the last read or write of globalDB or lastUsedDB
    callArgs,           \* the parameter args of the running ExecuteLuaScript
    luaArgs,            \* the Lua global args
    cachedDBNames,      \* the cached database names (empty is the nil slice)
    cachedTableNames,   \* cachedTableNames[dbName] (empty is nil or absent)
    cachedColumnNames,  \* cachedColumnNames[dbName] (empty is nil or absent)
    fetched,            \* the lists the metadata queries have answered so far
    fetch,              \* fetch[w]: what the request of goroutine w gave and
                        \* the invocations of its callback
    event_loop,         \* the script of lua_examples/test_http.lua: its table
                        \* event_loop, where it is, and the value each
                        \* goroutine holds between reading and writing
    server,             \* what the database answers a query of a script with:
                        \* the column names and the rows
    interp              \* the interpreters: how many exist (created and not
                        \* closed), how often sql and http were registered
                        \* in the current one, the globals scripts set in it,
                        \* and whether InitializeLuaState was called with it

connVars == <<handles, globalDB, lastUsedDB, startupDB, db, curDB, prompt>>
replVars == <<queryBuilder, globalOutputFormat, replSuggestion>>
luaVars == <<globalLuaState, luaStateMutex, luaRet, worker>>
askVars == <<anim, done>>
guardVars == <<globalDBLock, goroutine, access>>
argVars == <<callArgs, luaArgs>>
completeVars == <<cachedDBNames, cachedTableNames, cachedColumnNames, fetched>>
shownVars == <<render, sink, first, askVars, guardVars, completeVars, server>>
auxVars == <<askVars, guardVars, argVars, completeVars, fetch, event_loop, server, interp>>
outVars == <<render, sink, first, auxVars>>
vars == <<pc, terminal, execSQL, connVars, replVars, last, luaVars, sqlResult, outVars>>

Workers == 1..MaxWorkers

\* the goroutines that use the shared handle: 0 is the main goroutine, the
\* others run callbacks of http.fetch, whose Lua code may call sql.query
Goroutines == {0} \cup Workers

\* a goroutine outside the accessors
Idle == [op |-> "", at |-> "idle", held |-> "none"]

\* access before any read or write
NoAccess == [g |-> 0, var |-> "", kind |-> "", held |-> "none"]

\* what `last` holds when the step issued no statement
NoStmt ==
    [query |-> <<>>, class |-> "", handle |-> Nil, isQ |-> FALSE, err |-> "",
     queries |-> 0, execs |-> 0, printed |-> FALSE, hasRows |-> FALSE,
     rows |-> 0, written |-> 0, affectedRows |-> 0]

\* what `last` records of a step: its outcome, the statement it issued, the
\* command line it dispatched (the name, then the arguments), the handler
\* that line was handed to, the error the handler returned (<<>> is nil) and,
\* for a line that ReplSimpleCmd handles, the suggestion that pre-filled the
\* prompt it was typed at.  The line belongs to one iteration of the loop:
\* only the outcome and the statement are kept past the next prompt.  Of that
\* iteration it also records the calls of connectWithRetry (attempts), the
\* line that Prompt returned when it went to the statement buffer (input,
\* and typed that says there is one) and the items given to
\* line.AppendHistory (appended)
\* a function of the completer that was not called
NotCalled == [called |-> FALSE, query |-> FALSE, err |-> FALSE, list |-> <<>>]

\* no completion request
NoCompletion == [databases |-> NotCalled, tables |-> NotCalled, cols |-> NotCalled]

Outcome(o) ==
    [outcome |-> o, stmt |-> NoStmt, cmd |-> <<>>, handler |-> "", err |-> <<>>,
     suggested |-> "", attempts |-> <<>>, typed |-> FALSE, input |-> <<>>,
     appended |-> <<>>, completion |-> NoCompletion, sent |-> <<>>]

\* a line read by the REPL that is a command: err is what handleCmd returned,
\* and line.AppendHistory(trimmedInput) follows the return
Cmd(o, line, handler, err) ==
    [Outcome(o) EXCEPT !.cmd = line, !.handler = handler, !.err = err,
                       !.appended = <<line>>]

\* a command line whose handler has not returned: ExecuteLuaScript is
\* running, or the process has ended in the handler
CmdInHandler(o, line, handler) == [Cmd(o, line, handler, <<>>) EXCEPT !.appended = <<>>]

\* a field of the result table that is not set
NotSet == -1

\* sqlResult before any call of sql.query or sql.execute
NoResult ==
    [fn |-> "", failed |-> "", ok |-> FALSE, error |-> "", raised |-> FALSE,
     columns |-> <<>>, data |-> <<>>, row_count |-> NotSet]

\* a database that answers one column and no row
NoRows == [columns |-> <<"c1">>, rows |-> <<>>]

\* render when nothing is being rendered
NoRender ==
    [via |-> "", outputFormat |-> "", isQ |-> FALSE, output |-> <<>>,
     affectedRows |-> 0, written |-> 0]

(* ----------------------------- connection ------------------------------ *)

\* what the server makes of a connection attempt: reached with TLS, reached
\* only without TLS, not reached, reached (with TLS, or only without) but
\* the second Ping fails
ConnectOutcomes == {"tls", "plain", "refused", "pingfail", "plain_pingfail"}

\* a call of connectWithRetry(dsn, host, useTLS) and whether it returned a
\* handle
Attempt(useTLS, ok) == [useTLS |-> useTLS, ok |-> ok]

\* a mutant of Attempts: the connection without TLS is tried twice
AttemptsRetryTwice(outcome) ==
    CASE outcome \in {"tls", "pingfail"} -> <<Attempt(TRUE, TRUE)>>
      [] outcome \in {"plain", "plain_pingfail"} ->
            <<Attempt(TRUE, FALSE), Attempt(FALSE, TRUE)>>
      [] OTHER -> <<Attempt(TRUE, FALSE), Attempt(FALSE, FALSE), Attempt(FALSE, FALSE)>>

\* connectToDatabase: the calls of connectWithRetry it makes, in order: with
\* TLS, and when that returned an error, without
Attempts(outcome) ==
    CASE outcome \in {"tls", "pingfail"} -> <<Attempt(TRUE, TRUE)>>
      [] outcome \in {"plain", "plain_pingfail"} ->
            <<Attempt(TRUE, FALSE), Attempt(FALSE, TRUE)>>
      [] OTHER -> <<Attempt(TRUE, FALSE), Attempt(FALSE, FALSE)>>

\* the handle connectWithRetry returns: sql.Open, then Ping, Close on failure
NewHandle(database) == [open |-> TRUE, database |-> database]

\* connectToDatabase: the new handles, the new globalDB, the error and the
\* attempts made.  A handle whose first Ping fails is closed by
\* connectWithRetry and leaves nothing; one whose second Ping fails is left
\* open and is not installed
connectToDatabase(database, outcome) ==
    LET name == IF database = "" /\ lastUsedDB # "" THEN lastUsedDB ELSE database
    IN  CASE outcome = "refused" ->
                [err |-> TRUE, handles |-> handles, globalDB |-> globalDB,
                 attempts |-> Attempts(outcome)]
          [] outcome \in {"pingfail", "plain_pingfail"} ->
                [err |-> TRUE, handles |-> Append(handles, NewHandle(name)),
                 globalDB |-> globalDB, attempts |-> Attempts(outcome)]
          [] OTHER ->
                [err |-> FALSE, handles |-> Append(handles, NewHandle(name)),
                 globalDB |-> Len(handles) + 1, attempts |-> Attempts(outcome)]

\* db.Close()
Close(hs, h) ==
    IF h = Nil THEN hs ELSE [hs EXCEPT ![h] = [@ EXCEPT !.open = FALSE]]

OpenHandles == {h \in 1..Len(handles) : handles[h].open}

(* ------------------------------ executeSQL ----------------------------- *)

\* what the driver answers to the call executeSQL makes (db.Query or
\* db.Exec): r is "ok", "error" (the call fails), "meta_error" (rows.Columns
\* or result.RowsAffected fails), "scan_error" (rows.Scan fails) or
\* "write_error" (resultIOWriter.Write fails); n is the number of rows
\* returned or affected
DriverOutcomes ==
    [r : {"ok", "error", "meta_error", "scan_error", "write_error"},
     n : 0..MaxRows]

\* return false, nil, false, 0, err
SQLError(e, queries, execs) ==
    [isQ |-> FALSE, rows |-> 0, hasRows |-> FALSE, affectedRows |-> 0,
     err |-> e, queries |-> queries, execs |-> execs, written |-> 0]

\* executeSQL, the branch of a query: db.Query, rows.Columns, the loop of
\* rows.Next with rows.Scan, each row written to resultIOWriter or appended
QueryPath(drv, resultIOWriter) ==
    CASE drv.r = "error" -> SQLError("exec", 1, 0)
      [] drv.r = "meta_error" -> SQLError("columns", 1, 0)
      [] drv.r = "scan_error" /\ drv.n > 0 -> SQLError("scan", 1, 0)
      [] drv.r = "write_error" /\ drv.n > 0 /\ resultIOWriter ->
            SQLError("write", 1, 0)
      [] OTHER ->
            [isQ |-> TRUE,
             rows |-> IF resultIOWriter THEN 0 ELSE drv.n,
             hasRows |-> drv.n > 0, affectedRows |-> 0, err |-> "",
             queries |-> 1, execs |-> 0,
             written |-> IF resultIOWriter THEN drv.n ELSE 0]

\* executeSQL, the other branch: db.Exec and result.RowsAffected
ExecPath(drv) ==
    CASE drv.r = "error" -> SQLError("exec", 0, 1)
      [] drv.r = "meta_error" -> SQLError("affected", 0, 1)
      [] OTHER ->
            [isQ |-> FALSE, rows |-> 0, hasRows |-> FALSE,
             affectedRows |-> drv.n, err |-> "", queries |-> 0,
             execs |-> 1, written |-> 0]

\* a mutant of executeSQL: every batch is fetched
executeSQLAlwaysFetch(query, drv, resultIOWriter) ==
    IF isQuery(query).err THEN SQLError("parse", 0, 0)
    ELSE QueryPath(drv, resultIOWriter)

\* a mutant of executeSQL: a batch that does not parse is sent to the server
executeSQLIgnoreParseError(query, drv, resultIOWriter) ==
    IF isQuery(query).isQ THEN QueryPath(drv, resultIOWriter) ELSE ExecPath(drv)

\* executeSQL: (isQ, output, hasRows, affectedRows, err), and the calls made
executeSQL(query, drv, resultIOWriter) ==
    LET c == isQuery(query) IN
    IF c.err THEN SQLError("parse", 0, 0)
    ELSE IF c.isQ THEN QueryPath(drv, resultIOWriter)
    ELSE ExecPath(drv)

\* isQ, err := isQuery(query), as one label
Classify(query) ==
    LET c == isQuery(query) IN
    IF c.err THEN "ParseError" ELSE IF c.isQ THEN "Query" ELSE "NonQuery"

\* what `last` records of a statement: the text, its label, the handle it
\* went to, what executeSQL returned, and whether printResults was called
Stmt(query, h, r, printed) ==
    [query |-> query, class |-> Classify(query), handle |-> h,
     isQ |-> r.isQ, err |-> r.err,
     queries |-> r.queries, execs |-> r.execs, printed |-> printed,
     hasRows |-> r.hasRows, rows |-> r.rows, written |-> r.written,
     affectedRows |-> r.affectedRows]

(* -------------------------------- main --------------------------------- *)

\* the database of the flags, the configuration file or the environment
StartupDatabases == {"", "a"}

\* main: connectToDatabase(connInfo), a failure is logged and db stays nil;
\* the deferred Close() of the handle; then -e, or repl(GetDB(), ...)
MainConnect ==
    /\ pc = "main"
    /\ \E database \in StartupDatabases, outcome \in ConnectOutcomes :
          LET r == connectToDatabase(database, outcome) IN
          /\ handles' = r.handles
          /\ globalDB' = r.globalDB
          /\ startupDB' = r.globalDB
          /\ db' = IF execSQL = <<>> THEN r.globalDB ELSE db
          /\ last' = [Outcome(IF r.err THEN "connect_error" ELSE "connect_ok")
                          EXCEPT !.attempts = r.attempts]
    /\ pc' = IF execSQL = <<>> THEN "prompt" ELSE "oneshot"
    /\ UNCHANGED <<outVars, sqlResult, terminal, execSQL, lastUsedDB, curDB, prompt, replVars, luaVars>>

\* main with -e: executeSQL(GetDB(), *execSQL, resultIOWriter); log.Fatalf on
\* an error (the deferred Close() does not run); else printResults and return
OneShot ==
    /\ pc = "oneshot"
    /\ \E drv \in DriverOutcomes :
          LET r == executeSQL(execSQL, drv, FALSE)
              \* a call on a nil *sql.DB panics
              crash == globalDB = Nil /\ r.queries + r.execs > 0
              rr == IF crash THEN SQLError("panic", r.queries, r.execs) ELSE r
          IN  /\ last' = [Outcome(IF rr.err = "" THEN "stmt_ok" ELSE "stmt_error")
                             EXCEPT !.stmt = Stmt(execSQL, globalDB, rr, rr.err = "")]
              /\ pc' = IF rr.err = "" THEN "done" ELSE "exited"
              /\ handles' = IF rr.err = "" THEN Close(handles, startupDB) ELSE handles
    /\ UNCHANGED <<outVars, sqlResult, terminal, execSQL, globalDB, lastUsedDB, startupDB, db, curDB, prompt,
                   replVars, luaVars>>

(* -------------------------------- repl --------------------------------- *)

\* the SQL lines a user types
ReplLines ==
    {<<>>, <<"SelectStmt">>, <<";">>, <<"SelectStmt", ";">>,
     <<"InsertStmt", ";", " ">>, <<"?", ";">>,
     <<"UseStmt", ";", "SelectStmt", ";">>}

\* repl, the head of the loop: on a terminal with a connection the prompt
\* asks SELECT DATABASE() of db (a failed Scan leaves curDB as it was) and
\* stores the answer as the last used database
ReplPrompt ==
    /\ pc = "prompt"
    /\ \E answered \in BOOLEAN :
          LET asks == terminal /\ db # Nil
              scanned == IF asks /\ answered /\ handles[db].database # ""
                         THEN handles[db].database ELSE curDB
              cur == IF asks /\ scanned = "" THEN "(none)" ELSE scanned
          IN  /\ curDB' = cur
              /\ lastUsedDB' = IF asks /\ cur # "(none)" THEN cur ELSE lastUsedDB
    /\ prompt' = IF ~terminal THEN ""
                 ELSE IF db = Nil THEN "tip> "
                 ELSE IF queryBuilder = <<>> THEN "db> " ELSE "db>>> "
    /\ last' = [Outcome(last.outcome) EXCEPT !.stmt = last.stmt]
    /\ pc' = "read"
    /\ UNCHANGED <<outVars, sqlResult, terminal, execSQL, handles, globalDB, startupDB, db,
                   replVars, luaVars>>

\* line.Prompt returns an error (end of input): the loop ends, repl and main
\* return, and main's deferred Close() closes the startup handle
ReplEOF ==
    /\ pc = "read"
    /\ pc' = "done"
    /\ handles' = Close(handles, startupDB)
    /\ last' = Outcome("eof")
    /\ UNCHANGED <<outVars, sqlResult, terminal, execSQL, globalDB, lastUsedDB, startupDB, db, curDB, prompt,
                   replVars, luaVars>>

\* RegisteredSystemCmds as cmds.go lists it: the Name() of each, in order
ListedSystemCmds ==
    <<".help", ".ver", ".refresh_completion", ".connect", ".output_format",
      ".ask", ".lua-eval">>

\* the registered commands, in order: the listed ones and .lua-eval-file
\* (LuaRunFileCmd), the command the README lists after .lua-eval
RegisteredSystemCmds == Append(ListedSystemCmds, ".lua-eval-file")

\* the command names a user types: the documented ones and one that is none
TypedCmds ==
    {".help", ".ver", ".refresh_completion", ".connect", ".output_format",
     ".ask", ".lua-eval", ".lua-eval-file", ".bogus"}

\* name is a prefix of cmdName, for the names above
HasPrefix(cmdName, name) ==
    cmdName = name \/ (name = ".lua-eval" /\ cmdName = ".lua-eval-file")

\* a mutant of Lookup: the first registered command whose name starts the line
LookupByPrefix(cmdName) ==
    LET hits == {i \in 1..Len(RegisteredSystemCmds) :
                    HasPrefix(cmdName, RegisteredSystemCmds[i])}
    IN  IF hits = {} THEN 0 ELSE CHOOSE i \in hits : \A j \in hits : i <= j

\* handleCmd, the loop: the first registered command of that name, 0 when none
Lookup(cmdName) ==
    LET hits == {i \in 1..Len(RegisteredSystemCmds) : RegisteredSystemCmds[i] = cmdName}
    IN  IF hits = {} THEN 0 ELSE CHOOSE i \in hits : \A j \in hits : i <= j

\* a mutant of handleCmd: a name that matches no command is passed over in
\* silence
handleCmdSilent(cmdName) ==
    LET i == Lookup(cmdName) IN
    IF i = 0 THEN [handler |-> "", notice |-> FALSE]
    ELSE [handler |-> RegisteredSystemCmds[i], notice |-> FALSE]

\* handleCmd: the command the line is handed to; with none, the notice
\* "Unknown command: ..." is written to resultWriter and nil is returned
handleCmd(cmdName) ==
    LET i == Lookup(cmdName) IN
    IF i = 0 THEN [handler |-> "", notice |-> TRUE]
    ELSE [handler |-> RegisteredSystemCmds[i], notice |-> FALSE]

\* strings.Split(s, sep) for a separator of one character: the pieces
\* between the separators, the empty ones too
RECURSIVE SplitFrom(_, _, _)
SplitFrom(s, sep, piece) ==
    IF s = <<>> THEN <<piece>>
    ELSE IF Head(s) = sep THEN <<piece>> \o SplitFrom(Tail(s), sep, <<>>)
    ELSE SplitFrom(Tail(s), sep, Append(piece, Head(s)))

Split(s, sep) == SplitFrom(s, sep, <<>>)

\* handleCmd: line = strings.TrimSpace(line), cmdName is
\* strings.Split(line, " ")[0] and params strings.Split(line, " ")[1:]
splitLine(line) ==
    LET parts == Split(TrimSpace(line), " ") IN
    [cmdName |-> parts[1], params |-> Tail(parts)]

\* the command lines typed, character by character: a dot, then letters
\* and spaces
CmdLines ==
    {<<".">> \o t : t \in UNION {[1..n -> {"a", " "}] : n \in 0..MaxLineLen}}

\* handleCmd(line, os.Stdout) of a typed line, up to the call of
\* cmd.Handle(params, line, resultWriter): last.cmd is cmdName and params
HandleCmdLine ==
    /\ pc = "read"
    /\ \E line \in CmdLines :
          LET r == splitLine(line) IN
          last' = [Outcome("split") EXCEPT !.input = line,
                                          !.cmd = <<r.cmdName>> \o r.params]
    /\ UNCHANGED <<outVars, sqlResult, pc, terminal, execSQL, connVars, replVars, luaVars>>

\* a mutant of SuggestionAfterInput: the suggestion is never reset
SuggestionKept(suggestion) == suggestion

\* replSuggestion = "", after each line that Prompt returns
SuggestionAfterInput(suggestion) == ""

\* a line that starts with "." goes to handleCmd, is appended to the history
\* and never touches the statement buffer.  HelpCmd, VerCmd and RefreshCmd
\* write their text and return nil; so does a line that names no command
ReplSimpleCmd ==
    /\ pc = "read"
    /\ \E cmdName \in TypedCmds :
          LET r == handleCmd(cmdName) IN
          /\ r.handler \in {"", ".help", ".ver", ".refresh_completion"}
          /\ last' = [Cmd(IF r.handler # "" THEN "cmd_ok"
                          ELSE IF r.notice THEN "cmd_unknown" ELSE "cmd_ignored",
                          <<cmdName>>, r.handler, <<>>)
                        EXCEPT !.suggested = replSuggestion]
    /\ replSuggestion' = SuggestionAfterInput(replSuggestion)
    /\ pc' = "prompt"
    /\ UNCHANGED <<outVars, sqlResult, terminal, execSQL, connVars, queryBuilder,
                   globalOutputFormat, luaVars>>

\* the arguments of .connect: <host> <port> <user> <password> [database]
ConnectArgs ==
    {<<>>, <<"h", "p", "u">>, <<"h", "p", "u", "pw">>,
     <<"h", "p", "u", "pw", "a">>, <<"h", "p", "u", "pw", "b">>}

\* ConnectCmd.Handle
ReplConnect ==
    /\ pc = "read"
    /\ \E cmdName \in TypedCmds, args \in ConnectArgs, outcome \in ConnectOutcomes :
          /\ handleCmd(cmdName).handler = ".connect"
          /\ IF Len(args) < 4
             THEN /\ last' = Cmd("cmd_error", <<cmdName>> \o args, ".connect",
                                 <<"usage: .connect">>)
                  /\ UNCHANGED <<handles, globalDB>>
             ELSE LET dbName == IF Len(args) > 4 THEN args[5]
                                ELSE IF lastUsedDB # "" THEN lastUsedDB
                                ELSE DefaultDatabase
                      r == connectToDatabase(dbName, outcome)
                  IN  /\ Len(handles) < MaxHandles
                      /\ handles' = r.handles
                      /\ globalDB' = r.globalDB
                      /\ last' = [Cmd(IF r.err THEN "connect_error" ELSE "connect_ok",
                                      <<cmdName>> \o args, ".connect",
                                      IF r.err THEN <<"failed to connect to TiDB">>
                                      ELSE <<>>)
                                    EXCEPT !.attempts = r.attempts]
    /\ replSuggestion' = SuggestionAfterInput(replSuggestion)
    /\ pc' = "prompt"
    /\ UNCHANGED <<outVars, sqlResult, terminal, execSQL, lastUsedDB, startupDB, db,
                   curDB, prompt, queryBuilder, globalOutputFormat, luaVars>>

\* the arguments of .output_format
FormatArgs ==
    {<<>>, <<"json">>, <<"table">>, <<"plain">>, <<"csv">>, <<"xml">>,
     <<"json", "csv">>}

\* a mutant of OutputFormatCmdHandle: the name is not validated
OutputFormatCmdHandleAnyName(args, current) ==
    IF Len(args) = 0 THEN [err |-> <<>>, format |-> current]
    ELSE IF Len(args) # 1
    THEN [err |-> <<"usage: .output_format <format>">>, format |-> current]
    ELSE [err |-> <<>>, format |-> parseOutputFormat(args[1])]

\* OutputFormatCmd.Handle: the error returned and *globalOutputFormat after it
OutputFormatCmdHandle(args, current) ==
    IF Len(args) = 0 THEN [err |-> <<>>, format |-> current]
    ELSE IF Len(args) # 1
    THEN [err |-> <<"usage: .output_format <format>">>, format |-> current]
    ELSE IF parseOutputFormat(args[1]) = "plain" /\ args[1] # "plain"
    THEN [err |-> <<"invalid format: ", args[1]>>, format |-> current]
    ELSE [err |-> <<>>, format |-> parseOutputFormat(args[1])]

\* .output_format: OutputFormatCmd.Handle
ReplOutputFormat ==
    /\ pc = "read"
    /\ \E cmdName \in TypedCmds, args \in FormatArgs :
          LET r == OutputFormatCmdHandle(args, globalOutputFormat) IN
          /\ handleCmd(cmdName).handler = ".output_format"
          /\ globalOutputFormat' = r.format
          /\ last' = Cmd(IF r.err = <<>> THEN "cmd_ok" ELSE "cmd_error",
                         <<cmdName>> \o args, ".output_format", r.err)
    /\ replSuggestion' = SuggestionAfterInput(replSuggestion)
    /\ pc' = "prompt"
    /\ UNCHANGED <<outVars, sqlResult, terminal, execSQL, connVars, queryBuilder,
                   luaVars>>

\* AskCmd.Handle: no question is an error, so is a failed request; an answer
\* with SQL blocks opens a selection, whose result (empty when the selection
\* is cancelled) becomes the suggestion
ReplAsk ==
    /\ pc = "read"
    /\ \E cmdName \in TypedCmds, args \in {<<>>, <<"q">>},
          answer \in {"error", "no_sql", "selected", "cancelled"} :
          /\ handleCmd(cmdName).handler = ".ask"
          /\ IF Len(args) = 0 \/ answer = "error"
             THEN /\ last' = Cmd("cmd_error", <<cmdName>> \o args, ".ask",
                                 IF Len(args) = 0 THEN <<"usage: .ask <question>">>
                                 ELSE <<"error asking question">>)
                  /\ replSuggestion' = SuggestionAfterInput(replSuggestion)
             ELSE /\ last' = Cmd("cmd_ok", <<cmdName>> \o args, ".ask", <<>>)
                  /\ replSuggestion' =
                        CASE answer = "selected" -> "sql"
                          [] answer = "cancelled" -> ""
                          [] OTHER -> SuggestionAfterInput(replSuggestion)
    /\ pc' = "prompt"
    /\ UNCHANGED <<outVars, sqlResult, terminal, execSQL, connVars, queryBuilder,
                   globalOutputFormat, luaVars>>

\* a mutant of NotConnected: every line is taken as a statement
NotConnectedNever(handle) == FALSE

\* if db == nil, for a line that is not a command
NotConnected(handle) == handle = Nil

\* a line that is not a command, with db == nil: an error is logged
ReplNotConnected ==
    /\ pc = "read"
    /\ NotConnected(db)
    /\ \E input \in ReplLines : TRUE
    /\ last' = Outcome("not_connected")
    /\ replSuggestion' = SuggestionAfterInput(replSuggestion)
    /\ pc' = "prompt"
    /\ UNCHANGED <<outVars, sqlResult, terminal, execSQL, connVars, queryBuilder, globalOutputFormat,
                   luaVars>>

\* a mutant of Appended: the line is added without its new line
AppendedWithoutNewline(buf, input) == buf \o input

\* queryBuilder += input + "\n"
Appended(buf, input) == buf \o input \o <<"\n">>

\* a line that does not end the statement, on a terminal: it stays buffered
ReplAppend ==
    /\ pc = "read"
    /\ ~NotConnected(db)
    /\ terminal
    /\ BufLines(queryBuilder) < MaxBufLines
    /\ \E input \in ReplLines :
          /\ ~EndsWithSemicolon(TrimSpace(input))
          /\ queryBuilder' = Appended(queryBuilder, input)
          /\ last' = [Outcome("appended") EXCEPT !.typed = TRUE, !.input = input]
    /\ replSuggestion' = SuggestionAfterInput(replSuggestion)
    /\ pc' = "prompt"
    /\ UNCHANGED <<outVars, sqlResult, terminal, execSQL, connVars, globalOutputFormat, luaVars>>

\* a mutant of BufferAfterPipeError: the line stays in the buffer
BufferKeptOnPipeError(buf) == buf

\* queryBuilder = "", after "Error: Input from pipe must end with a semicolon."
BufferAfterPipeError(buf) == <<>>

\* a line that does not end the statement, from a pipe: the buffer is dropped
ReplPipeError ==
    /\ pc = "read"
    /\ ~NotConnected(db)
    /\ ~terminal
    /\ \E input \in ReplLines :
          /\ ~EndsWithSemicolon(TrimSpace(input))
          /\ queryBuilder' = BufferAfterPipeError(Appended(queryBuilder, input))
    /\ last' = Outcome("pipe_error")
    /\ replSuggestion' = SuggestionAfterInput(replSuggestion)
    /\ pc' = "prompt"
    /\ UNCHANGED <<outVars, sqlResult, terminal, execSQL, connVars, globalOutputFormat, luaVars>>

\* a mutant of BufferAfterDispatch: the buffer survives a failed statement
BufferKeptOnError(buf, err) == IF err # "" THEN buf ELSE <<>>

\* queryBuilder = "", after log.Println(err) and after printResults
BufferAfterDispatch(buf, err) == <<>>

\* a line that ends with ";": the trimmed buffer goes to executeSQL on db;
\* an error is logged, a result is printed; the buffer is reset
ReplDispatch ==
    /\ pc = "read"
    /\ ~NotConnected(db)
    /\ \E input \in ReplLines, drv \in DriverOutcomes :
          /\ EndsWithSemicolon(TrimSpace(input))
          /\ LET buf == TrimSpace(Appended(queryBuilder, input))
                 r == executeSQL(buf, drv, FALSE)
             IN  /\ last' = [Outcome(IF r.err = "" THEN "stmt_ok" ELSE "stmt_error")
                                EXCEPT !.stmt = Stmt(buf, db, r, r.err = ""),
                                       !.typed = TRUE, !.input = input,
                                       !.appended = <<buf>>]
                 /\ queryBuilder' = BufferAfterDispatch(buf, r.err)
    /\ replSuggestion' = SuggestionAfterInput(replSuggestion)
    /\ pc' = "prompt"
    /\ UNCHANGED <<outVars, sqlResult, terminal, execSQL, connVars, globalOutputFormat, luaVars>>

(* --------------------------- the Lua bridge ---------------------------- *)

\* LuaCmd.parseLuaScriptAndArgs, the loop over argsPart: a backslash takes
\* the next character as it is, a double quote toggles inQuotes, a space
\* outside quotes ends the argument (an empty one is dropped)
RECURSIVE parseArgsFrom(_, _, _, _, _, _)
parseArgsFrom(argsPart, i, currentArg, inQuotes, escapeNext, parsedArgs) ==
    IF i > Len(argsPart)
    THEN IF currentArg # <<>> THEN Append(parsedArgs, currentArg) ELSE parsedArgs
    ELSE LET char == argsPart[i] IN
         IF escapeNext
         THEN parseArgsFrom(argsPart, i + 1, Append(currentArg, char), inQuotes, FALSE,
                            parsedArgs)
         ELSE IF char = "\\"
         THEN parseArgsFrom(argsPart, i + 1, currentArg, inQuotes, TRUE, parsedArgs)
         ELSE IF char = Quote
         THEN parseArgsFrom(argsPart, i + 1, currentArg, ~inQuotes, FALSE, parsedArgs)
         ELSE IF char = " " /\ ~inQuotes
         THEN parseArgsFrom(argsPart, i + 1, <<>>, inQuotes, FALSE,
                            IF currentArg # <<>> THEN Append(parsedArgs, currentArg)
                            ELSE parsedArgs)
         ELSE parseArgsFrom(argsPart, i + 1, Append(currentArg, char), inQuotes, FALSE,
                            parsedArgs)

\* a mutant of parseLuaArgs: the text is cut at its spaces, quotes and
\* backslashes are characters like any other
parseLuaArgsFields(rest) ==
    SelectSeq(Split(TrimSpace(rest), " "), LAMBDA piece : piece # <<>>)

\* LuaCmd.parseLuaScriptAndArgs: the arguments of the text after the script
parseLuaArgs(rest) == parseArgsFrom(TrimSpace(rest), 1, <<>>, FALSE, FALSE, <<>>)

\* the texts typed after the script, character by character
ArgsParts ==
    UNION {[1..n -> {"a", " ", "\\", Quote}] : n \in 0..MaxArgsLen}

\* LuaCmd.Handle of a line whose script is well formed, up to its call of
\* ExecuteLuaScript(script, args, w): parseLuaScriptAndArgs(rawInput) returns
\* the arguments and no error.  last.input is argsPart, last.cmd is
\* parsedArgs and last.err the error
ParseLuaScriptAndArgs ==
    /\ pc = "read"
    /\ pc' = "GetLuaState"
    /\ luaRet' = "prompt"
    /\ \E rest \in ArgsParts :
          /\ callArgs' = parseLuaArgs(rest)
          /\ last' = [Outcome("parsed") EXCEPT !.input = TrimSpace(rest),
                                               !.cmd = parseLuaArgs(rest)]
    /\ UNCHANGED <<shownVars, interp, fetch, event_loop, luaArgs, sqlResult, terminal, execSQL,
                   connVars, replVars, globalLuaState, luaStateMutex, worker>>

\* the arguments a user types after the script: each is a text, written in
\* double quotes or not
TypedArgLists ==
    {<<>>,
     <<[text |-> <<"a", " ", "a">>, quoted |-> TRUE]>>,
     <<[text |-> <<"b">>, quoted |-> FALSE], [text |-> <<"a", " ", "a">>, quoted |-> TRUE]>>}

\* the characters typed for the arguments: a space before each
RECURSIVE Written(_)
Written(typedArgs) ==
    IF typedArgs = <<>> THEN <<>>
    ELSE LET arg == Head(typedArgs) IN
         <<" ">> \o (IF arg.quoted THEN <<Quote>> \o arg.text \o <<Quote>> ELSE arg.text)
         \o Written(Tail(typedArgs))

\* LuaCmd.Handle: no argument and a script that is not quoted are errors;
\* else ExecuteLuaScript(script, parsedArgs, resultWriter)
ReplLuaEval ==
    /\ pc = "read"
    /\ \E cmdName \in TypedCmds, form \in {"no_args", "unquoted", "script"},
          typedArgs \in TypedArgLists :
          /\ handleCmd(cmdName).handler = ".lua-eval"
          /\ IF form = "script"
             THEN /\ pc' = "GetLuaState"
                  /\ luaRet' = "prompt"
                  /\ callArgs' = parseLuaArgs(Written(typedArgs))
                  /\ last' = CmdInHandler("script",
                                          <<cmdName, "\"script\"">> \o Written(typedArgs),
                                          ".lua-eval")
             ELSE /\ pc' = "prompt"
                  /\ UNCHANGED callArgs
                  /\ last' = Cmd("cmd_error",
                                 IF form = "no_args" THEN <<cmdName>>
                                 ELSE <<cmdName, "script">>,
                                 ".lua-eval",
                                 IF form = "no_args" THEN <<"usage: .lua-eval">>
                                 ELSE <<"invalid script format">>)
                  /\ UNCHANGED luaRet
    /\ replSuggestion' = SuggestionAfterInput(replSuggestion)
    /\ UNCHANGED <<shownVars, interp, fetch, event_loop, luaArgs, sqlResult, terminal, execSQL, connVars, queryBuilder,
                   globalOutputFormat, globalLuaState, luaStateMutex, worker>>

\* LuaRunFileCmd.Handle: args[0] of no arguments panics; a source that cannot
\* be read is os.Exit(1); else ExecuteLuaScript(content, args[1:], os.Stdout)
ReplLuaEvalFile ==
    /\ pc = "read"
    /\ \E cmdName \in TypedCmds, form \in {"no_args", "unreadable", "script"} :
          /\ handleCmd(cmdName).handler = ".lua-eval-file"
          /\ IF form = "script"
             THEN /\ pc' = "GetLuaState"
                  /\ luaRet' = "prompt"
                  /\ callArgs' = <<>>
                  /\ last' = CmdInHandler("script", <<cmdName, "file">>,
                                          ".lua-eval-file")
             ELSE /\ pc' = "exited"
                  /\ UNCHANGED callArgs
                  /\ last' = CmdInHandler(IF form = "no_args" THEN "panic" ELSE "exit",
                                          IF form = "no_args" THEN <<cmdName>>
                                          ELSE <<cmdName, "file">>,
                                          ".lua-eval-file")
                  /\ UNCHANGED luaRet
    /\ replSuggestion' = SuggestionAfterInput(replSuggestion)
    /\ UNCHANGED <<shownVars, interp, fetch, event_loop, luaArgs, sqlResult, terminal, execSQL, connVars, queryBuilder,
                   globalOutputFormat, globalLuaState, luaStateMutex, worker>>

\* GetLuaState: luaStateMutex.Lock()
GetLuaStateLock ==
    /\ pc = "GetLuaState"
    /\ ~luaStateMutex
    /\ luaStateMutex' = TRUE
    /\ pc' = "GetLuaState_locked"
    /\ UNCHANGED <<outVars, sqlResult, terminal, execSQL, connVars, replVars, last, globalLuaState,
                   luaRet, worker>>

\* GetLuaState: with no interpreter it calls InitializeLuaState, the mutex
\* still locked; else it returns the interpreter (the deferred Unlock) and
\* ExecuteLuaScript sets the global args from its parameter and goes on to
\* L.DoString(script)
GetLuaStateCheck ==
    /\ pc = "GetLuaState_locked"
    /\ IF globalLuaState = "nil"
       THEN /\ pc' = "InitializeLuaState_nested"
            /\ UNCHANGED <<luaStateMutex, luaArgs>>
       ELSE /\ pc' = "DoString"
            /\ luaStateMutex' = FALSE
            /\ luaArgs' = callArgs
    /\ UNCHANGED <<shownVars, interp, fetch, event_loop, callArgs, sqlResult, terminal, execSQL, connVars, replVars, last, globalLuaState,
                   luaRet, worker>>

\* no interpreter
NoInterpreter == [alive |-> 0, registered |-> 0, globals |-> {}, again |-> FALSE]

\* a mutant of NeedsNewState: an interpreter is created at every call
NeedsNewStateAlways(state) == TRUE

\* InitializeLuaState: if globalLuaState == nil
NeedsNewState(state) == state = "nil"

\* InitializeLuaState: Lock(), create the interpreter and register sql and
\* http when there is none, Unlock().  Called by the host it returns to the
\* host; called by GetLuaState it returns there, GetLuaState returns and
\* ExecuteLuaScript sets the global args
InitializeLuaState ==
    /\ pc \in {"InitializeLuaState_host", "InitializeLuaState_nested"}
    /\ ~luaStateMutex
    /\ globalLuaState' = "open"
    /\ interp' = IF NeedsNewState(globalLuaState)
                 THEN [alive |-> interp.alive + 1, registered |-> 1, globals |-> {},
                       again |-> FALSE]
                 ELSE [interp EXCEPT !.again = TRUE]
    /\ luaStateMutex' = FALSE
    /\ pc' = IF pc = "InitializeLuaState_host" THEN "host" ELSE "DoString"
    /\ luaArgs' = IF pc = "InitializeLuaState_host"
                  THEN (IF NeedsNewState(globalLuaState) THEN <<>> ELSE luaArgs)
                  ELSE callArgs
    /\ UNCHANGED <<shownVars, fetch, event_loop, callArgs, sqlResult, terminal, execSQL, connVars, replVars, last, luaRet, worker>>

\* a host that calls InitializeLuaState() itself
HostInitialize ==
    /\ pc = "host"
    /\ pc' = "InitializeLuaState_host"
    /\ UNCHANGED <<outVars, sqlResult, terminal, execSQL, connVars, replVars, last, luaVars>>

\* CloseLuaState: Lock(), close and forget the interpreter (its globals
\* with it), Unlock()
CloseLuaState ==
    /\ pc = "host"
    /\ ~luaStateMutex
    /\ globalLuaState' = "nil"
    /\ interp' = IF globalLuaState # "nil"
                 THEN [alive |-> interp.alive - 1, registered |-> 0, globals |-> {},
                       again |-> FALSE]
                 ELSE interp
    /\ luaArgs' = <<>>
    /\ UNCHANGED <<shownVars, fetch, event_loop, callArgs, sqlResult, pc, terminal, execSQL, connVars, replVars, last,
                   luaStateMutex, luaRet, worker>>

\* a host that calls ExecuteLuaScript(script, args, w)
HostExecute ==
    /\ pc = "host"
    /\ pc' = "GetLuaState"
    /\ luaRet' = "host"
    /\ last' = Outcome("script")
    /\ \E typedArgs \in TypedArgLists : callArgs' = parseLuaArgs(Written(typedArgs))
    /\ UNCHANGED <<shownVars, interp, fetch, event_loop, luaArgs, sqlResult, terminal, execSQL, connVars, replVars, globalLuaState,
                   luaStateMutex, worker>>

\* the goroutines that are executing inside the interpreter; 0 is the
\* goroutine of ExecuteLuaScript
InInterpreter ==
    (IF pc = "DoString" THEN {0} ELSE {}) \cup {w \in Workers : worker[w] = "callback"}

\* no request yet
NoFetch == [ok |-> FALSE, calls |-> <<>>]

\* L.CallByParam(lua.P{Fn: callback, Protect: true}, ok, value): the
\* invocations of the callback it can make.  The interpreter has no lock:
\* while another goroutine executes in it the call is a data race on its
\* stack, and the callback may as well not be run
CallByParam(ok, racing) == IF racing THEN {<<ok>>, <<>>} ELSE {<<ok>>}

\* the script assigns a global
ScriptSetGlobal ==
    /\ pc = "DoString"
    /\ "x" \notin interp.globals
    /\ interp' = [interp EXCEPT !.globals = interp.globals \cup {"x"}]
    /\ UNCHANGED <<shownVars, argVars, fetch, event_loop, sqlResult, pc, terminal, execSQL,
                   connVars, replVars, last, luaVars>>

\* the script calls http.fetch with a callback: go func() { ... }(), and
\* http.fetch returns
ScriptFetchAsync(w) ==
    /\ pc = "DoString"
    /\ worker[w] = "idle"
    /\ worker' = [worker EXCEPT ![w] = "request"]
    /\ UNCHANGED <<outVars, sqlResult, pc, terminal, execSQL, connVars, replVars, last,
                   globalLuaState, luaStateMutex, luaRet>>

\* L.DoString returns, with an error or not, and so does ExecuteLuaScript;
\* in the REPL handleCmd returns and the line is appended to the history
ScriptReturn ==
    /\ pc = "DoString"
    /\ \E failed \in BOOLEAN :
          last' = [last EXCEPT !.outcome = IF failed THEN "cmd_error" ELSE "cmd_ok",
                               !.err = IF failed THEN <<"lua execution error">>
                                       ELSE <<>>,
                               !.appended = IF luaRet = "prompt" THEN <<last.cmd>>
                                            ELSE <<>>]
    /\ pc' = luaRet
    /\ callArgs' = <<>>
    /\ UNCHANGED <<shownVars, interp, fetch, event_loop, luaArgs, sqlResult, terminal, execSQL, connVars, replVars,
                   luaVars>>

\* the goroutine: client.Do(req) and io.ReadAll return, and the goroutine
\* calls L.CallByParam(callback) itself: with false and the error text when
\* either failed, else (after L.NewTable) with true and the response
WorkerCallback(w) ==
    /\ worker[w] = "request"
    /\ \E result \in {"ok", "error", "read_error"} :
          \E calls \in CallByParam(result = "ok", InInterpreter # {}) :
             fetch' = [fetch EXCEPT ![w] = [ok |-> result = "ok", calls |-> calls]]
    /\ worker' = [worker EXCEPT ![w] = "callback"]
    /\ UNCHANGED <<shownVars, interp, argVars, event_loop, sqlResult, pc, terminal, execSQL, connVars, replVars, last,
                   globalLuaState, luaStateMutex, luaRet>>

\* the callback returns and the goroutine ends
WorkerReturn(w) ==
    /\ worker[w] = "callback"
    /\ worker' = [worker EXCEPT ![w] = "idle"]
    /\ fetch' = [fetch EXCEPT ![w] = NoFetch]
    /\ UNCHANGED <<shownVars, interp, argVars, event_loop, sqlResult, pc, terminal, execSQL, connVars, replVars, last,
                   globalLuaState, luaStateMutex, luaRet>>

\* a host that connects before it runs scripts: SetDB(db) of a handle that
\* sql.Open returned
HostSetDB ==
    /\ pc = "host"
    /\ Len(handles) < MaxHandles
    /\ handles' = Append(handles, NewHandle(DefaultDatabase))
    /\ globalDB' = Len(handles) + 1
    /\ UNCHANGED <<outVars, sqlResult, pc, terminal, execSQL, lastUsedDB, startupDB, db,
                   curDB, prompt, replVars, last, luaVars>>

\* the calls of database/sql in sql.query, in the order of the code; one of
\* them may return an error, and rows.Next() may end the loop early with
\* the error left in rows.Err()
QuerySteps == <<"conn.Query", "rows.Columns", "rows.Scan", "rows.Next">>

\* the calls of database/sql in sql.execute
ExecuteSteps == <<"conn.Exec", "res.RowsAffected", "res.LastInsertId">>

\* the steps of sql.query whose error the function looks at
QueryChecked == {"conn.Query", "rows.Columns", "rows.Scan"}

\* the steps of sql.execute whose error the function looks at
ExecuteChecked == {"conn.Exec", "res.RowsAffected", "res.LastInsertId"}

\* the table a registered function returns: ok and error are set to true and
\* "" first; with GetDB() == nil, or with an error of a step the function
\* looks at, ok is false and error the message.  failed is the step that
\* failed ("" when none did), for the properties
sqlCall(fn, conn, failed, checked) ==
    IF conn = Nil
    THEN [NoResult EXCEPT !.fn = fn, !.failed = "GetDB",
                          !.error = "database connection is not available"]
    ELSE IF failed \in checked
    THEN [NoResult EXCEPT !.fn = fn, !.failed = failed, !.error = "err.Error()"]
    ELSE [NoResult EXCEPT !.fn = fn, !.failed = failed, !.ok = TRUE]

\* the values database/sql scans into an interface{}
GoValues ==
    {[type |-> "nil", v |-> ""], [type |-> "[]byte", v |-> "a"], [type |-> "int64", v |-> "1"]}

\* lua.LNil
LNil == [type |-> "LNil", v |-> "", layout |-> ""]

\* sql.query, the type switch: the Lua value of a scanned value
luaValue(val) ==
    CASE val.type = "[]byte" -> [type |-> "LString", v |-> val.v, layout |-> ""]
      [] val.type = "nil" -> LNil
      [] val.type \in {"int64", "float64"} -> [type |-> "LNumber", v |-> val.v, layout |-> ""]
      [] val.type = "bool" -> [type |-> "LBool", v |-> val.v, layout |-> ""]
      [] val.type = "time.Time" ->
           [type |-> "LString", v |-> val.v, layout |-> "2006-01-02 15:04:05"]
      [] OTHER -> [type |-> "LString", v |-> val.v, layout |-> "%v"]

\* L.NewTable() and RawSetInt(i, values[i]) for i = 1..len(values): a Lua
\* table holds no entry for a nil value
NewTable(values) ==
    [i \in {j \in 1..Len(values) : values[j] # LNil} |-> values[i]]

\* table:RawGetInt(i): nil for an index with no entry
RawGetInt(table, i) == IF i \in DOMAIN table THEN table[i] ELSE LNil

\* sql.query: rowTable of a scanned row
rowTable(values) == NewTable([i \in 1..Len(values) |-> luaValue(values[i])])

\* sql.query: headerRow
headerRow(columns) ==
    [i \in 1..Len(columns) |-> [type |-> "LString", v |-> columns[i], layout |-> ""]]

\* a mutant of RowCount: the index of the next row
RowCountNextIndex(rowIndex) == rowIndex

\* sql.query: lua.LNumber(rowIndex-1)
RowCount(rowIndex) == rowIndex - 1

\* sql.query: the result table.  scanned is the number of rows for which
\* rows.Next() was true; resultTable holds their row tables at 1..scanned
\* and rowIndex is scanned + 1 after the loop
sqlQuery(conn, failed, answer, scanned) ==
    LET r == sqlCall("query", conn, failed, QueryChecked) IN
    IF ~r.ok THEN r
    ELSE [r EXCEPT !.columns = headerRow(answer.columns),
                   !.data = [i \in 1..scanned |-> rowTable(answer.rows[i])],
                   !.row_count = RowCount(scanned + 1)]

\* the script calls sql.query(query); when rows.Next() ends the loop with an
\* error the rows before it have been fetched
ScriptSQLQuery ==
    /\ pc = "DoString"
    /\ \E failed \in {""} \cup {QuerySteps[i] : i \in 1..Len(QuerySteps)},
          scanned \in 0..Len(server.rows) :
          /\ failed # "rows.Next" => scanned = Len(server.rows)
          /\ failed = "rows.Next" => scanned < Len(server.rows) \/ server.rows = <<>>
          /\ sqlResult' = sqlQuery(globalDB, failed, server, scanned)
    /\ UNCHANGED <<outVars, pc, terminal, execSQL, connVars, replVars, last, luaVars>>

\* the script calls sql.execute(query)
ScriptSQLExecute ==
    /\ pc = "DoString"
    /\ \E failed \in {""} \cup {ExecuteSteps[i] : i \in 1..Len(ExecuteSteps)} :
          sqlResult' = sqlCall("execute", globalDB, failed, ExecuteChecked)
    /\ UNCHANGED <<outVars, pc, terminal, execSQL, connVars, replVars, last, luaVars>>

(* --------------------------- the event loop ---------------------------- *)

\* The script of lua_examples/test_http.lua with one or more asynchronous
\* requests: event_loop:add_task(), http.fetch(..., callback), and at the
\* end event_loop:run(); the callback calls event_loop:remove_task().
\* pending_tasks = pending_tasks + 1 is a read of the field and then a write
\* of it, and nothing keeps another goroutine from executing in between.

\* no value read
Unread == -1

\* the script has not started
NoLoop ==
    [pending_tasks |-> 0, at |-> "add_task", reg |-> Unread, tasks |-> 0, removed |-> 0,
     cb |-> [w \in Workers |-> Unread]]

\* event_loop:add_task(): the read of self.pending_tasks
LoopAddTaskRead ==
    /\ pc = "DoString"
    /\ event_loop.at = "add_task"
    /\ event_loop.tasks < MaxWorkers
    /\ event_loop' = [event_loop EXCEPT !.reg = event_loop.pending_tasks, !.at = "add_write"]
    /\ UNCHANGED <<shownVars, interp, argVars, fetch, sqlResult, pc, terminal, execSQL, connVars,
                   replVars, last, luaVars>>

\* event_loop:add_task(): the write of self.pending_tasks
LoopAddTaskWrite ==
    /\ pc = "DoString"
    /\ event_loop.at = "add_write"
    /\ event_loop' = [event_loop EXCEPT !.pending_tasks = event_loop.reg + 1,
                                        !.reg = Unread, !.at = "fetch",
                                        !.tasks = event_loop.tasks + 1]
    /\ UNCHANGED <<shownVars, interp, argVars, fetch, sqlResult, pc, terminal, execSQL, connVars,
                   replVars, last, luaVars>>

\* http.fetch with the callback: the goroutine is started; the script goes
\* on to its next request or to event_loop:run()
LoopFetch(w) ==
    /\ pc = "DoString"
    /\ event_loop.at = "fetch"
    /\ worker[w] = "idle"
    /\ worker' = [worker EXCEPT ![w] = "request"]
    /\ \E next \in {"add_task", "run"} :
          /\ next = "add_task" => event_loop.tasks < MaxWorkers
          /\ event_loop' = [event_loop EXCEPT !.at = next]
    /\ UNCHANGED <<shownVars, interp, argVars, fetch, sqlResult, pc, terminal, execSQL, connVars,
                   replVars, last, globalLuaState, luaStateMutex, luaRet>>

\* event_loop:run(): while self.running and self.pending_tasks > 0 it
\* sleeps; else the loop is left
LoopRun ==
    /\ pc = "DoString"
    /\ event_loop.at = "run"
    /\ ~(event_loop.pending_tasks > 0)
    /\ event_loop' = [event_loop EXCEPT !.at = "left"]
    /\ UNCHANGED <<shownVars, interp, argVars, fetch, sqlResult, pc, terminal, execSQL, connVars,
                   replVars, last, luaVars>>

\* the callback, run by the goroutine of its request:
\* event_loop:remove_task(), the read of self.pending_tasks
CallbackRemoveTaskRead(w) ==
    /\ worker[w] = "callback"
    /\ fetch[w].calls # <<>>
    /\ event_loop.cb[w] = Unread
    /\ event_loop' = [event_loop EXCEPT !.cb[w] = event_loop.pending_tasks]
    /\ UNCHANGED <<shownVars, interp, argVars, fetch, sqlResult, pc, terminal, execSQL, connVars,
                   replVars, last, luaVars>>

\* event_loop:remove_task(), the write of self.pending_tasks; the callback
\* returns and the goroutine ends
CallbackRemoveTaskWrite(w) ==
    /\ worker[w] = "callback"
    /\ event_loop.cb[w] # Unread
    /\ event_loop' = [event_loop EXCEPT !.pending_tasks = event_loop.cb[w] - 1,
                                        !.cb[w] = Unread,
                                        !.removed = event_loop.removed + 1]
    /\ worker' = [worker EXCEPT ![w] = "idle"]
    /\ fetch' = [fetch EXCEPT ![w] = NoFetch]
    /\ UNCHANGED <<shownVars, interp, argVars, sqlResult, pc, terminal, execSQL, connVars,
                   replVars, last, globalLuaState, luaStateMutex, luaRet>>

\* CallByParam did not run the callback; the goroutine ends
CallbackNotRun(w) ==
    /\ worker[w] = "callback"
    /\ fetch[w].calls = <<>>
    /\ worker' = [worker EXCEPT ![w] = "idle"]
    /\ fetch' = [fetch EXCEPT ![w] = NoFetch]
    /\ UNCHANGED <<shownVars, interp, argVars, event_loop, sqlResult, pc, terminal, execSQL, connVars,
                   replVars, last, globalLuaState, luaStateMutex, luaRet>>

(* ----------------------------- completion ------------------------------ *)

\* the lists of names a metadata query answers: n names, numbered
NameLists == {[i \in 1..n |-> i] : n \in 0..MaxNames}

\* what db.Query and the loop over rows.Next() give: an error, or the list
Answers ==
    {[err |-> TRUE, list |-> <<>>]} \cup {[err |-> FALSE, list |-> l] : l \in NameLists}

\* the values of repl's curDB, the keys of the two maps
CacheKeys == {"", "(none)", DefaultDatabase} \cup StartupDatabases \cup {"a", "b"}

\* nothing fetched yet
NotFetched == [done |-> FALSE, list |-> <<>>]

\* getDatabases: the cached list when len(cachedDBNames) > 0; else SHOW
\* DATABASES, whose answer (a nil slice when there is no row) is returned
getDatabases(cached, answer) ==
    IF Len(cached) > 0
    THEN [called |-> TRUE, query |-> FALSE, err |-> FALSE, list |-> cached]
    ELSE [called |-> TRUE, query |-> TRUE, err |-> answer.err, list |-> answer.list]

\* getTableNames: the cached list when cachedTableNames[dbName] != nil; else
\* SHOW TABLES
getTableNames(cache, dbName, answer) ==
    IF cache[dbName] # <<>>
    THEN [called |-> TRUE, query |-> FALSE, err |-> FALSE, list |-> cache[dbName]]
    ELSE [called |-> TRUE, query |-> TRUE, err |-> answer.err, list |-> answer.list]

\* getAllColumnNames: the cached list when cachedColumnNames[dbName] != nil;
\* else SELECT COLUMN_NAME FROM INFORMATION_SCHEMA.COLUMNS
getAllColumnNames(cache, dbName, answer) ==
    IF cache[dbName] # <<>>
    THEN [called |-> TRUE, query |-> FALSE, err |-> FALSE, list |-> cache[dbName]]
    ELSE [called |-> TRUE, query |-> TRUE, err |-> answer.err, list |-> answer.list]

\* the list was fetched by this call
Fetched(r) == r.called /\ r.query /\ ~r.err

\* repl's completer, called by the line editor while it reads a line:
\* getDatabases(db), getTableNames(db, curDB), getAllColumnNames(db, curDB),
\* returning at the first error; each stores what it fetched.  A query on a
\* nil db panics
Completer ==
    /\ pc = "read"
    /\ \E a1 \in Answers, a2 \in Answers, a3 \in Answers :
          LET d == getDatabases(cachedDBNames, a1)
              t == IF d.err THEN NotCalled
                   ELSE getTableNames(cachedTableNames, curDB, a2)
              c == IF d.err \/ t.err THEN NotCalled
                   ELSE getAllColumnNames(cachedColumnNames, curDB, a3)
          IN  IF db = Nil /\ d.query
              THEN /\ pc' = "exited"
                   /\ last' = Outcome("panic")
                   /\ UNCHANGED completeVars
              ELSE /\ pc' = pc
                   /\ last' = [Outcome("completed") EXCEPT
                                  !.completion = [databases |-> d, tables |-> t, cols |-> c]]
                   /\ cachedDBNames' = IF Fetched(d) THEN d.list ELSE cachedDBNames
                   /\ cachedTableNames' =
                         IF Fetched(t) THEN [cachedTableNames EXCEPT ![curDB] = t.list]
                         ELSE cachedTableNames
                   /\ cachedColumnNames' =
                         IF Fetched(c) THEN [cachedColumnNames EXCEPT ![curDB] = c.list]
                         ELSE cachedColumnNames
                   /\ fetched' =
                         [databases |-> IF Fetched(d) THEN [done |-> TRUE, list |-> d.list]
                                        ELSE fetched.databases,
                          tables |-> IF Fetched(t)
                                     THEN [fetched.tables EXCEPT
                                             ![curDB] = [done |-> TRUE, list |-> t.list]]
                                     ELSE fetched.tables,
                          cols |-> IF Fetched(c)
                                   THEN [fetched.cols EXCEPT
                                           ![curDB] = [done |-> TRUE, list |-> c.list]]
                                   ELSE fetched.cols]
    /\ UNCHANGED <<render, sink, first, askVars, guardVars, argVars, fetch, event_loop, server, interp, sqlResult, terminal,
                   execSQL, connVars, replVars, luaVars>>

(* ------------------------- the read-write guard ------------------------ *)

\* The accessors of the shared handle and of the last used database, step by
\* step: the lock, the read or write, the unlock of the deferred call, and
\* then what the caller does with the value (a query, an exec, a connect).
\* refineQuestion uses the variable globalDB itself

\* the accessors with their variable, the kind of the access and the lock
Accessors ==
    {[op |-> "GetDB", var |-> "globalDB", kind |-> "read", lock |-> "shared"],
     [op |-> "GetLastUsedDB", var |-> "lastUsedDB", kind |-> "read", lock |-> "shared"],
     [op |-> "SetDB", var |-> "globalDB", kind |-> "write", lock |-> "exclusive"],
     [op |-> "SetLastUsedDB", var |-> "lastUsedDB", kind |-> "write",
      lock |-> "exclusive"]}

Accessor(op) == CHOOSE a \in Accessors : a.op = op

\* the databases SELECT DATABASE() answers at the prompt
PromptDatabases == {"a", "b"}

\* globalDBLock.RLock() or globalDBLock.Lock(): RLock waits for the writer,
\* Lock for the writer and the readers.  A callback calls only GetDB (by
\* sql.query and sql.execute)
GuardLock(g) ==
    /\ goroutine[g].at = "idle"
    /\ \E a \in Accessors :
          /\ g # 0 => a.op = "GetDB"
          /\ ~globalDBLock.writer
          /\ a.lock = "exclusive" => globalDBLock.readers = 0
          /\ globalDBLock' = IF a.lock = "shared"
                              THEN [globalDBLock EXCEPT !.readers = @ + 1]
                              ELSE [globalDBLock EXCEPT !.writer = TRUE]
          /\ goroutine' = [goroutine EXCEPT ![g] = [op |-> a.op, at |-> "locked",
                                                    held |-> a.lock]]
    /\ UNCHANGED <<pc, terminal, execSQL, connVars, replVars, last, luaVars, sqlResult,
                   render, sink, first, askVars, argVars, completeVars, fetch, event_loop, server, interp, access>>

\* the body of the accessor: return globalDB, globalDB = db, return
\* lastUsedDB, lastUsedDB = db
GuardAccess(g) ==
    /\ goroutine[g].at = "locked"
    /\ LET a == Accessor(goroutine[g].op) IN
       /\ access' = [g |-> g, var |-> a.var, kind |-> a.kind, held |-> goroutine[g].held]
       /\ CASE a.op = "SetDB" ->
                  /\ Len(handles) < MaxHandles
                  /\ handles' = Append(handles, NewHandle(DefaultDatabase))
                  /\ globalDB' = Len(handles) + 1
                  /\ UNCHANGED lastUsedDB
            [] a.op = "SetLastUsedDB" ->
                  /\ \E d \in PromptDatabases : lastUsedDB' = d
                  /\ UNCHANGED <<handles, globalDB>>
            [] OTHER -> UNCHANGED <<handles, globalDB, lastUsedDB>>
    /\ goroutine' = [goroutine EXCEPT ![g].at = "accessed"]
    /\ UNCHANGED <<pc, terminal, execSQL, startupDB, db, curDB, prompt, replVars, last,
                   luaVars, sqlResult, render, sink, first, askVars, argVars, completeVars, fetch, event_loop, server, interp, globalDBLock>>

\* the deferred RUnlock() or Unlock(), and the return to the caller
GuardUnlock(g) ==
    /\ goroutine[g].at = "accessed"
    /\ globalDBLock' = IF goroutine[g].held = "shared"
                        THEN [globalDBLock EXCEPT !.readers = @ - 1]
                        ELSE [globalDBLock EXCEPT !.writer = FALSE]
    /\ goroutine' = [goroutine EXCEPT ![g].at = "call", ![g].held = "none"]
    /\ UNCHANGED <<pc, terminal, execSQL, connVars, replVars, last, luaVars, sqlResult,
                   render, sink, first, askVars, argVars, completeVars, fetch, event_loop, server, interp, access>>

\* refineQuestion: if globalDB != nil, by the variable and with no lock
RefineQuestionRead ==
    /\ goroutine[0].at = "idle"
    /\ access' = [g |-> 0, var |-> "globalDB", kind |-> "read", held |-> goroutine[0].held]
    /\ goroutine' = [goroutine EXCEPT ![0] = [op |-> "refineQuestion", at |-> "call",
                                              held |-> "none"]]
    /\ UNCHANGED <<pc, terminal, execSQL, connVars, replVars, last, luaVars, sqlResult,
                   render, sink, first, askVars, argVars, completeVars, fetch, event_loop, server, interp, globalDBLock>>

\* what the caller does with the value: conn.Query, conn.Exec, QueryRow, or
\* connectWithRetry; then it is outside the accessors again
GuardCall(g) ==
    /\ goroutine[g].at = "call"
    /\ goroutine' = [goroutine EXCEPT ![g] = Idle]
    /\ UNCHANGED <<pc, terminal, execSQL, connVars, replVars, last, luaVars, sqlResult,
                   render, sink, first, askVars, argVars, completeVars, fetch, event_loop, server, interp, globalDBLock, access>>

(* -------------------------------- .ask --------------------------------- *)

\* AskCmd.Handle step by step, with the goroutine of loadingAnimation.  The
\* text written to resultWriter is kept in sink: "frame" is a frame of the
\* animation, "clear" the sequence that clears the line, "answer" the answer.
\* done is "empty", "sending" while the main goroutine is blocked in
\* done <- true, and "received" when loadingAnimation has taken the value

\* frames the animation writes before it is stopped
MaxFrames == 3

\* a mutant of SendCompletes: done is a buffered channel
SendCompletesBuffered(ch) == TRUE

\* done <- true on the unbuffered channel returns when the value was received
SendCompletes(ch) == ch = "received"

\* a line that starts with .ask, read by repl: the suggestion is reset and
\* handleCmd calls AskCmd.Handle, which returns an error with no question.
\* sink holds what the command writes
ReplAskLine ==
    /\ pc = "read"
    /\ \E args \in {<<>>, <<"q">>} :
          IF Len(args) = 0
          THEN /\ pc' = "prompt"
               /\ last' = Cmd("cmd_error", <<".ask">>, ".ask", <<"usage: .ask <question>">>)
          ELSE /\ pc' = "ask"
               /\ last' = Outcome("none")
    /\ replSuggestion' = SuggestionAfterInput(replSuggestion)
    /\ sink' = <<>>
    /\ UNCHANGED <<terminal, execSQL, connVars, queryBuilder, globalOutputFormat, luaVars,
                   sqlResult, render, first, auxVars>>

\* AskCmd.Handle with a question: go loadingAnimation(resultWriter, done)
AskStart ==
    /\ pc = "ask"
    /\ anim' = "select"
    /\ last' = CmdInHandler("asking", <<".ask", "q">>, ".ask")
    /\ pc' = "asking"
    /\ UNCHANGED <<terminal, execSQL, connVars, replVars, luaVars, sqlResult,
                   render, sink, first, done, guardVars, argVars, completeVars, fetch, event_loop, server, interp>>

\* loadingAnimation, select: nothing to receive, the default case is taken
AnimDefault ==
    /\ anim = "select"
    /\ done # "sending"
    /\ Len(sink) < MaxFrames
    /\ anim' = "write"
    /\ UNCHANGED <<pc, terminal, execSQL, connVars, replVars, last, luaVars, sqlResult,
                   render, sink, first, done, guardVars, argVars, completeVars, fetch, event_loop, server, interp>>

\* loadingAnimation, default: w.Write of the frame, the sleep, and back to
\* the select
AnimWrite ==
    /\ anim = "write"
    /\ sink' = Append(sink, "frame")
    /\ anim' = "select"
    /\ UNCHANGED <<pc, terminal, execSQL, connVars, replVars, last, luaVars, sqlResult,
                   render, first, done, guardVars, argVars, completeVars, fetch, event_loop, server, interp>>

\* loadingAnimation, select: case <-done: return
AnimReceive ==
    /\ anim = "select"
    /\ done = "sending"
    /\ done' = "received"
    /\ anim' = "returned"
    /\ UNCHANGED <<pc, terminal, execSQL, connVars, replVars, last, luaVars, sqlResult,
                   render, sink, first, guardVars, argVars, completeVars, fetch, event_loop, server, interp>>

\* refineQuestion: with globalDB != nil it asks SELECT DATABASE(); with a
\* database, getTableNames(globalDB, curDB) (its error is dropped) and SHOW
\* CREATE TABLE for the words of the question that name a table.  sent is
\* what it sends to the database, tables what getTableNames gave
refineQuestion(conn, database, answer, named) ==
    IF conn = Nil THEN [sent |-> <<>>, curDB |-> "", tables |-> NotCalled]
    ELSE IF database = ""
    THEN [sent |-> <<"SELECT DATABASE()">>, curDB |-> "", tables |-> NotCalled]
    ELSE LET t == getTableNames(cachedTableNames, database, answer) IN
         [sent |-> <<"SELECT DATABASE()">>
                   \o (IF t.query THEN <<"SHOW TABLES">> ELSE <<>>)
                   \o (IF ~t.err /\ t.list # <<>> /\ named
                       THEN <<"SHOW CREATE TABLE">> ELSE <<>>),
          curDB |-> database, tables |-> t]

\* refineQuestion and askQuestion have returned, with an answer or an
\* error: done <- true
AskSend ==
    /\ pc = "asking"
    /\ done' = "sending"
    /\ \E failed \in BOOLEAN, scanned \in BOOLEAN, answer \in Answers, named \in BOOLEAN :
          LET r == refineQuestion(globalDB,
                                  IF globalDB # Nil /\ scanned
                                  THEN handles[globalDB].database ELSE "",
                                  answer, named)
          IN  /\ last' = [last EXCEPT !.err = IF failed THEN <<"error asking question">>
                                              ELSE <<>>,
                                      !.sent = r.sent]
              /\ cachedTableNames' =
                    IF Fetched(r.tables)
                    THEN [cachedTableNames EXCEPT ![r.curDB] = r.tables.list]
                    ELSE cachedTableNames
              /\ fetched' =
                    IF Fetched(r.tables)
                    THEN [fetched EXCEPT
                            !.tables[r.curDB] = [done |-> TRUE, list |-> r.tables.list]]
                    ELSE fetched
    /\ pc' = "send"
    /\ UNCHANGED <<terminal, execSQL, connVars, replVars, luaVars, sqlResult,
                   render, sink, first, anim, guardVars, argVars, cachedDBNames,
                   cachedColumnNames, fetch, event_loop, server, interp>>

\* the send has returned: with an error Handle returns it; else the line is
\* cleared
AskStopped ==
    /\ pc = "send"
    /\ SendCompletes(done)
    /\ IF last.err # <<>>
       THEN /\ pc' = "prompt"
            /\ last' = [last EXCEPT !.outcome = "cmd_error", !.appended = <<last.cmd>>]
            /\ sink' = sink
       ELSE /\ pc' = "answer"
            /\ sink' = Append(sink, "clear")
            /\ last' = last
    /\ UNCHANGED <<terminal, execSQL, connVars, replVars, luaVars, sqlResult,
                   render, first, auxVars>>

\* a mutant of AskSuggestion: the selection is dropped
AskSuggestionDropped(sqlStatements, ret, current) == current

\* AskCmd.Handle: if len(sqlStatements) > 0 { ...; replSuggestion = ret }
AskSuggestion(sqlStatements, ret, current) ==
    IF Len(sqlStatements) > 0 THEN ret ELSE current

\* the answer is written; with SQL in it the selection opens, and its
\* result (empty when the selection is cancelled) becomes the suggestion;
\* Handle returns nil
AskAnswer ==
    /\ pc = "answer"
    /\ sink' = Append(sink, "answer")
    /\ \E answer \in {"no_sql", "selected", "cancelled"} :
          LET sqlStatements == IF answer = "no_sql" THEN <<>> ELSE <<"sql">>
              ret == IF answer = "selected" THEN "sql" ELSE ""
          IN  /\ replSuggestion' = AskSuggestion(sqlStatements, ret, replSuggestion)
              /\ last' = [last EXCEPT !.outcome = "cmd_ok", !.appended = <<last.cmd>>,
                                      !.suggested = IF answer = "selected" THEN ret
                                                    ELSE last.suggested]
    /\ pc' = "prompt"
    /\ UNCHANGED <<terminal, execSQL, connVars, queryBuilder, globalOutputFormat,
                   luaVars, sqlResult, render, first, auxVars>>

(* ------------------------------ renderers ------------------------------ *)

\* Rendered text is a sequence of characters and of literal pieces of the
\* format strings.  A column value is [type, s]: s is the text of a string or
\* []byte value and the decimal digits of an int64; nil has no text.

\* the characters of a string value
Chars == {"x", Quote}

\* the texts of up to n characters
RECURSIVE ValueTexts(_)
ValueTexts(n) ==
    IF n = 0 THEN {<<>>}
    ELSE LET shorter == ValueTexts(n - 1) IN
         shorter \cup {Append(t, c) : t \in {u \in shorter : Len(u) = n - 1},
                                      c \in Chars}

\* the value of the first column: NULL or a string
FirstValues ==
    {[type |-> "nil", s |-> <<>>]} \cup {[type |-> "string", s |-> t] : t \in ValueTexts(MaxValLen)}

\* RowResult: the rows of a result with the columns a (any value) and b (7)
RowResults ==
    {[colNames |-> <<"a", "b">>, colValues |-> <<v, [type |-> "int64", s |-> <<"7">>]>>] :
        v \in FirstValues}

\* the results of up to n rows
RECURSIVE Outputs(_)
Outputs(n) ==
    IF n = 0 THEN {<<>>}
    ELSE LET shorter == Outputs(n - 1) IN
         shorter \cup {Append(o, r) : o \in {u \in shorter : Len(u) = n - 1},
                                      r \in RowResults}

\* fmt.Sprintf("%d", n)
RECURSIVE Itoa(_)
Itoa(n) ==
    LET digits == <<"0", "1", "2", "3", "4", "5", "6", "7", "8", "9">> IN
    IF n < 10 THEN <<digits[n + 1]>>
    ELSE Itoa(n \div 10) \o <<digits[(n % 10) + 1]>>

\* strings.Join
RECURSIVE Join(_, _)
Join(elems, sep) ==
    IF elems = <<>> THEN <<>>
    ELSE IF Len(elems) = 1 THEN elems[1]
    ELSE elems[1] \o <<sep>> \o Join(Tail(elems), sep)

\* the texts of elems, one after the other
RECURSIVE Concat(_)
Concat(elems) == IF elems = <<>> THEN <<>> ELSE Head(elems) \o Concat(Tail(elems))

\* strings.ReplaceAll(s, old, new) for a character old
RECURSIVE ReplaceAll(_, _, _)
ReplaceAll(s, old, new) ==
    IF s = <<>> THEN <<>>
    ELSE (IF Head(s) = old THEN new ELSE <<Head(s)>>) \o ReplaceAll(Tail(s), old, new)

\* formatValue
formatValue(val) ==
    CASE val.type = "nil" -> <<"NULL">>
      [] OTHER -> val.s

\* formatCSVValue
formatCSVValue(val) ==
    CASE val.type = "nil" -> <<>>
      [] val.type = "int64" -> val.s
      [] OTHER -> <<Quote>> \o ReplaceAll(val.s, Quote, <<Quote, Quote>>) \o <<Quote>>

\* rowData: the cells of a row, formatted by formatValue
Cells(row) == [i \in 1..Len(row.colNames) |-> formatValue(row.colValues[i])]

\* rowData, record: the cells of a row, formatted by formatCSVValue
CSVCells(row) == [i \in 1..Len(row.colNames) |-> formatCSVValue(row.colValues[i])]

\* encoding/json: a string value
JSONString(s) == <<Quote>> \o ReplaceAll(s, Quote, <<"\\", Quote>>) \o <<Quote>>

\* encoding/json: a column value ([]byte values were converted to strings)
JSONValue(val) ==
    CASE val.type = "nil" -> <<"null">>
      [] val.type = "int64" -> val.s
      [] OTHER -> JSONString(val.s)

\* RowResult.MarshalJSON: an object keyed by column name
MarshalJSON(row) ==
    <<"{">>
    \o Join([i \in 1..Len(row.colNames) |->
                JSONString(<<row.colNames[i]>>) \o <<":">> \o JSONValue(row.colValues[i])],
            ",")
    \o <<"}">>

\* json.Marshal(output)
MarshalOutput(output) ==
    <<"[">> \o Join([i \in 1..Len(output) |-> MarshalJSON(output[i])], ",") \o <<"]">>

\* printResults, Plain: "<col>: <value> " for each column, then a new line
PlainRow(row) ==
    Concat([i \in 1..Len(row.colNames) |->
              <<row.colNames[i], ": ">> \o formatValue(row.colValues[i]) \o <<" ">>])
    \o <<"\n">>

\* tablewriter: the header and the rows between rules, the cells between bars
TableRow(row) == <<"|">> \o Join(Cells(row), "|") \o <<"|", "\n">>

\* printResults, CSV: the formatted cells joined by commas
CSVRow(row) == Join(CSVCells(row), ",") \o <<"\n">>

\* fmt.Println("OK, affected_rows:", affectedRows)
StatusLine(affectedRows) == <<"OK, affected_rows:", " ">> \o Itoa(affectedRows) \o <<"\n">>

\* printResults: what it writes to standard output
printResults(isQ, output, outputFormat, affectedRows) ==
    CASE outputFormat = "json" ->
            IF Len(output) = 0
            THEN IF ~isQ
                 THEN <<"{\"status\": \"OK\", \"affected_rows\": ">>
                      \o Itoa(affectedRows) \o <<"}", "\n">>
                 ELSE <<"[", "]", "\n">>
            ELSE MarshalOutput(output) \o <<"\n">>
      [] outputFormat = "plain" ->
            IF Len(output) = 0
            THEN IF ~isQ THEN StatusLine(affectedRows) ELSE <<"(empty result)", "\n">>
            ELSE Concat([i \in 1..Len(output) |-> PlainRow(output[i])])
      [] outputFormat = "table" ->
            IF Len(output) = 0
            THEN IF ~isQ THEN StatusLine(affectedRows) ELSE <<"(empty result)", "\n">>
            ELSE <<"+-+", "\n", "|">> \o Join([i \in 1..Len(output[1].colNames) |->
                                                  <<output[1].colNames[i]>>], "|")
                 \o <<"|", "\n", "+-+", "\n">>
                 \o Concat([i \in 1..Len(output) |-> TableRow(output[i])]) \o <<"+-+", "\n">>
      [] OTHER ->
            IF Len(output) = 0
            THEN IF ~isQ
                 THEN <<"status,affected_rows", "\n", "OK,">>
                      \o Itoa(affectedRows) \o <<"\n">>
                 ELSE <<"(empty result)", "\n">>
            ELSE Join([i \in 1..Len(output[1].colNames) |-> <<output[1].colNames[i]>>], ",")
                 \o <<"\n">> \o Concat([i \in 1..Len(output) |-> CSVRow(output[i])])

\* encoding/csv: a field is quoted when it holds a quote, a comma or a line
\* break, or starts with a space; the empty field is not
fieldNeedsQuotes(field) ==
    /\ field # <<>>
    /\ \/ \E i \in 1..Len(field) : field[i] \in {Quote, ",", "\n", "\r"}
       \/ field[1] = " "

\* encoding/csv, Writer.Write: the fields, quoted where needed with the
\* quotes inside doubled, joined by commas, and a new line
csvWrite(record) ==
    Join([i \in 1..Len(record) |->
            IF fieldNeedsQuotes(record[i])
            THEN <<Quote>> \o ReplaceAll(record[i], Quote, <<Quote, Quote>>) \o <<Quote>>
            ELSE record[i]],
         ",")
    \o <<"\n">>

\* CSVResultIOWriter.Write, one row
CSVWriteRow(row) == csvWrite(CSVCells(row))

\* JSONResultIOWriter.Write: "[" before the first row ever written, ","
\* before the others, and the row
RECURSIVE JSONWrite(_, _)
JSONWrite(rows, isFirst) ==
    IF rows = <<>> THEN <<>>
    ELSE <<IF isFirst THEN "[" ELSE ",">> \o MarshalJSON(Head(rows))
         \o JSONWrite(Tail(rows), FALSE)

\* ResultIOWriter.Write(rows) of the writer `via`
Write(via, rows, isFirst) ==
    CASE via = "CSVResultIOWriter" -> Concat([i \in 1..Len(rows) |-> CSVWriteRow(rows[i])])
      [] via = "PlainResultIOWriter" -> Concat([i \in 1..Len(rows) |-> PlainRow(rows[i])])
      [] OTHER -> JSONWrite(rows, isFirst)

\* ResultIOWriter.Flush() of the writer `via`: JSONResultIOWriter writes "]"
\* when a row was written; the others only flush their buffer
Flush(via, isFirst) ==
    IF via = "JSONResultIOWriter" /\ ~isFirst THEN <<"]">> ELSE <<>>

\* main with -e: the result is printed by printResults
MainPrintResults ==
    /\ pc = "render"
    /\ render.via = "printResults"
    /\ sink' = sink \o printResults(render.isQ, render.output, render.outputFormat,
                                    render.affectedRows)
    /\ pc' = "rendered"
    /\ UNCHANGED <<terminal, execSQL, connVars, replVars, last, luaVars, sqlResult,
                   render, first, auxVars>>

\* executeSQL with a resultIOWriter: the rows fetched next go to Write
WriterWrite ==
    /\ pc = "render"
    /\ render.via # "printResults"
    /\ \E k \in 1..(Len(render.output) - render.written) :
          LET rows == SubSeq(render.output, render.written + 1, render.written + k) IN
          /\ sink' = sink \o Write(render.via, rows, first)
          /\ first' = IF render.via = "JSONResultIOWriter" THEN FALSE ELSE first
          /\ render' = [render EXCEPT !.written = @ + k]
    /\ UNCHANGED <<pc, terminal, execSQL, connVars, replVars, last, luaVars, sqlResult,
                   auxVars>>

\* main with -e and -O: executeSQL has returned, resultIOWriter.Flush()
WriterFlush ==
    /\ pc = "render"
    /\ render.via # "printResults"
    /\ render.written = Len(render.output)
    /\ sink' = sink \o Flush(render.via, first)
    /\ pc' = "rendered"
    /\ UNCHANGED <<terminal, execSQL, connVars, replVars, last, luaVars, sqlResult,
                   render, first, auxVars>>

(* --------------------------- specifications ---------------------------- *)

\* the -o flag's values
FormatFlags == {"plain", "json", "table", "csv", "xml"}

InitShared ==
    /\ handles = <<>>
    /\ globalDB = Nil
    /\ lastUsedDB = ""
    /\ startupDB = Nil
    /\ db = Nil
    /\ curDB = ""
    /\ prompt = ""
    /\ queryBuilder = <<>>
    /\ replSuggestion = ""
    /\ last = Outcome("none")
    /\ globalLuaState = "nil"
    /\ luaStateMutex = FALSE
    /\ luaRet = "prompt"
    /\ worker = [w \in Workers |-> "idle"]
    /\ sqlResult = NoResult
    /\ sink = <<>>
    /\ first = TRUE
    /\ anim = "none"
    /\ done = "empty"
    /\ globalDBLock = [readers |-> 0, writer |-> FALSE]
    /\ goroutine = [g \in Goroutines |-> Idle]
    /\ access = NoAccess
    /\ callArgs = <<>>
    /\ luaArgs = <<>>
    /\ fetch = [w \in Workers |-> NoFetch]
    /\ event_loop = NoLoop
    /\ interp = NoInterpreter
    /\ cachedDBNames = <<>>
    /\ cachedTableNames = [dbName \in CacheKeys |-> <<>>]
    /\ cachedColumnNames = [dbName \in CacheKeys |-> <<>>]
    /\ fetched = [databases |-> NotFetched,
                  tables |-> [dbName \in CacheKeys |-> NotFetched],
                  cols |-> [dbName \in CacheKeys |-> NotFetched]]

\* the state after construction, with a database that answers no row
InitCommon ==
    /\ InitShared
    /\ server = NoRows

\* an interactive or piped session: main without -e
Init ==
    /\ InitCommon
    /\ pc = "main"
    /\ terminal \in BOOLEAN
    /\ execSQL = <<>>
    /\ globalOutputFormat \in {parseOutputFormat(f) : f \in FormatFlags}
    /\ render = NoRender

Next ==
    \/ MainConnect
    \/ ReplPrompt
    \/ ReplEOF
    \/ ReplSimpleCmd
    \/ ReplConnect
    \/ ReplOutputFormat
    \/ ReplAsk
    \/ ReplNotConnected
    \/ ReplAppend
    \/ ReplPipeError
    \/ ReplDispatch
    \/ ReplLuaEval
    \/ ReplLuaEvalFile
    \/ GetLuaStateLock
    \/ GetLuaStateCheck

Spec == Init /\ [][Next]_vars

\* the texts of -e: up to MaxStmts statements, each of any kind or rejected
RECURSIVE Texts(_)
Texts(n) ==
    IF n = 0 THEN {<<>>}
    ELSE LET shorter == Texts(n - 1) IN
         shorter \cup {Append(Append(t, k), ";") :
                          t \in {u \in shorter : Len(u) = 2 * (n - 1)},
                          k \in StmtKinds \cup {"?"}}

\* one-shot execution: main with -e
InitOneShot ==
    /\ InitCommon
    /\ pc = "main"
    /\ terminal = FALSE
    /\ execSQL \in Texts(MaxStmts) \ {<<>>}
    /\ globalOutputFormat = parseOutputFormat("table")
    /\ render = NoRender

NextOneShot ==
    \/ MainConnect
    \/ OneShot

SpecOneShot == InitOneShot /\ [][NextOneShot]_vars

\* the Lua bridge called by a host: InitializeLuaState, CloseLuaState and
\* ExecuteLuaScript in any order, with the goroutines of http.fetch
InitLua ==
    /\ InitCommon
    /\ pc = "host"
    /\ terminal = FALSE
    /\ execSQL = <<>>
    /\ globalOutputFormat = parseOutputFormat("table")
    /\ render = NoRender

NextLua ==
    \/ HostInitialize
    \/ CloseLuaState
    \/ HostExecute
    \/ GetLuaStateLock
    \/ GetLuaStateCheck
    \/ InitializeLuaState
    \/ ScriptReturn
    \/ HostSetDB
    \/ ScriptSQLQuery
    \/ ScriptSQLExecute
    \/ ScriptSetGlobal
    \/ \E w \in Workers : ScriptFetchAsync(w)
    \/ \E w \in Workers : WorkerCallback(w)
    \/ \E w \in Workers : WorkerReturn(w)

SpecLua == InitLua /\ [][NextLua]_vars

\* what main renders with: printResults in each format, or, with -O, the
\* writer of the format (table has none and is printed)
Renderers ==
    {[via |-> "printResults", outputFormat |-> f] : f \in Formats}
    \cup {[via |-> "CSVResultIOWriter", outputFormat |-> "csv"],
          [via |-> "PlainResultIOWriter", outputFormat |-> "plain"],
          [via |-> "JSONResultIOWriter", outputFormat |-> "json"]}

\* rendering: executeSQL has succeeded, with the rows of a query or with the
\* affected rows of another statement
InitRender ==
    /\ InitCommon
    /\ pc = "render"
    /\ terminal = FALSE
    /\ execSQL = <<"SelectStmt", ";">>
    /\ globalOutputFormat = parseOutputFormat("table")
    /\ \E r \in Renderers :
          \/ \E o \in Outputs(MaxOutRows) :
                render = [via |-> r.via, outputFormat |-> r.outputFormat, isQ |-> TRUE,
                          output |-> o, affectedRows |-> 0, written |-> 0]
          \/ \E n \in 0..MaxRows :
                render = [via |-> r.via, outputFormat |-> r.outputFormat, isQ |-> FALSE,
                          output |-> <<>>, affectedRows |-> n, written |-> 0]

NextRender ==
    \/ MainPrintResults
    \/ WriterWrite
    \/ WriterFlush

SpecRender == InitRender /\ [][NextRender]_vars

\* .ask with a question, typed at the prompt of a session: the line was
\* read (replSuggestion is reset) and handleCmd has called AskCmd.Handle
InitAsk ==
    /\ InitCommon
    /\ pc = "ask"
    /\ terminal \in BOOLEAN
    /\ execSQL = <<>>
    /\ globalOutputFormat \in Formats
    /\ render = NoRender

NextAsk ==
    \/ AskStart
    \/ AnimDefault
    \/ AnimWrite
    \/ AnimReceive
    \/ AskSend
    \/ AskStopped
    \/ AskAnswer

SpecAsk == InitAsk /\ [][NextAsk]_vars

\* the scheduler runs a goroutine that can run: the goroutine of Handle and
\* the goroutine of loadingAnimation both take their steps
SpecAskFair == SpecAsk /\ WF_vars(NextAsk)

\* a session in which .ask is typed, with a connection or none and with a
\* statement begun or none
NextAskSession ==
    \/ MainConnect
    \/ ReplPrompt
    \/ ReplAppend
    \/ ReplAskLine
    \/ AskStart
    \/ AnimDefault
    \/ AnimWrite
    \/ AnimReceive
    \/ AskSend
    \/ AskStopped
    \/ AskAnswer

SpecAskSession == Init /\ [][NextAskSession]_vars

\* the command lines of a session, at handleCmd
InitSplit ==
    /\ InitCommon
    /\ pc = "read"
    /\ terminal \in BOOLEAN
    /\ execSQL = <<>>
    /\ globalOutputFormat = parseOutputFormat("table")
    /\ render = NoRender

NextSplit == HandleCmdLine

SpecSplit == InitSplit /\ [][NextSplit]_vars

\* The tokenizer of .lua-eval: the text after the script is cut into the
\* arguments.
InitParse == InitSplit

NextParse == ParseLuaScriptAndArgs

SpecParse == InitParse /\ [][NextParse]_vars

\* the goroutines of a session at the accessors of the shared handle
InitGuard ==
    /\ InitCommon
    /\ pc = "read"
    /\ terminal \in BOOLEAN
    /\ execSQL = <<>>
    /\ globalOutputFormat = parseOutputFormat("table")
    /\ render = NoRender

NextGuard ==
    \/ \E g \in Goroutines : GuardLock(g)
    \/ \E g \in Goroutines : GuardAccess(g)
    \/ \E g \in Goroutines : GuardUnlock(g)
    \/ \E g \in Goroutines : GuardCall(g)
    \/ RefineQuestionRead

SpecGuard == InitGuard /\ [][NextGuard]_vars

\* a session in which the line editor asks for completions
InitComplete ==
    /\ InitCommon
    /\ pc = "main"
    /\ terminal \in BOOLEAN
    /\ execSQL = <<>>
    /\ globalOutputFormat = parseOutputFormat("table")
    /\ render = NoRender

NextComplete ==
    \/ MainConnect
    \/ ReplPrompt
    \/ ReplSimpleCmd
    \/ ReplConnect
    \/ Completer

SpecComplete == InitComplete /\ [][NextComplete]_vars

\* a host that has the script of lua_examples/test_http.lua executed
InitLoop ==
    /\ InitCommon
    /\ pc = "host"
    /\ terminal \in BOOLEAN
    /\ execSQL = <<>>
    /\ globalOutputFormat = parseOutputFormat("table")
    /\ render = NoRender

NextLoop ==
    \/ HostInitialize
    \/ InitializeLuaState
    \/ HostExecute
    \/ GetLuaStateLock
    \/ GetLuaStateCheck
    \/ LoopAddTaskRead
    \/ LoopAddTaskWrite
    \/ \E w \in Workers : LoopFetch(w)
    \/ LoopRun
    \/ \E w \in Workers : WorkerCallback(w)
    \/ \E w \in Workers : CallbackRemoveTaskRead(w)
    \/ \E w \in Workers : CallbackRemoveTaskWrite(w)
    \/ \E w \in Workers : CallbackNotRun(w)

SpecLoop == InitLoop /\ [][NextLoop]_vars

\* the column lists of a query
ColumnLists == {<<"c1">>, <<"c1", "c2">>}

\* the rows of n columns
RowsOf(n) == UNION {[1..k -> [1..n -> GoValues]] : k \in 0..MaxFetched}

\* what a database answers a query with
ServerAnswers ==
    UNION {{[columns |-> c, rows |-> r] : r \in RowsOf(Len(c))} : c \in ColumnLists}

\* a host with a connection that has scripts call sql.query
InitQuery ==
    /\ InitShared
    /\ server \in ServerAnswers
    /\ pc = "host"
    /\ terminal = FALSE
    /\ execSQL = <<>>
    /\ globalOutputFormat = parseOutputFormat("table")
    /\ render = NoRender

NextQuery ==
    \/ HostInitialize
    \/ InitializeLuaState
    \/ HostSetDB
    \/ HostExecute
    \/ GetLuaStateLock
    \/ GetLuaStateCheck
    \/ ScriptSQLQuery

SpecQuery == InitQuery /\ [][NextQuery]_vars

(* ------------------------------ properties ---------------------------- *)

\* the last step dispatched a buffered statement
Dispatched == last.outcome \in {"stmt_ok", "stmt_error"}

\* a .connect has succeeded since startup: the shared handle is no longer
\* the one (or the nil) that main installed
ConnectedMidSession == globalDB # startupDB

\* C1: in interactive mode, once the REPL has dispatched a buffered
\* statement, the statement buffer is empty and the prompt of the next line
\* shows no continuation marker, whether the statement succeeded, did not
\* parse or failed in execution.
C1_BufferEmptyAfterDispatch ==
    (terminal /\ Dispatched) =>
        /\ queryBuilder = <<>>
        /\ pc = "read" => prompt = "db> "

\* C1, witness: a statement of two lines failed in execution and the next
\* line is being read
C1_Witness ==
    /\ terminal
    /\ pc = "read"
    /\ last.outcome = "stmt_error"
    /\ last.stmt.err = "exec"
    /\ \E i \in 1..Len(last.stmt.query) : last.stmt.query[i] = "\n"

\* C2: at most one goroutine executes inside the interpreter, and a
\* goroutine of http.fetch never does.
C2_OneGoroutineInInterpreter ==
    /\ Cardinality(InInterpreter) <= 1
    /\ \A w \in Workers : w \notin InInterpreter

\* the steps of the goroutine of ExecuteLuaScript inside GetLuaState
GetLuaStateStep == GetLuaStateLock \/ GetLuaStateCheck \/ InitializeLuaState

\* C3: with no interpreter, the first ExecuteLuaScript is never stuck on
\* luaStateMutex: while it is inside GetLuaState it can take its next step
\* (no other goroutine ever unlocks that mutex).
C3_FirstScriptNotBlocked ==
    (globalLuaState = "nil"
        /\ pc \in {"GetLuaState", "GetLuaState_locked", "InitializeLuaState_nested"})
    => ENABLED GetLuaStateStep

C5_StatementsUseLatestConnect ==
    ConnectedMidSession =>
        /\ last.outcome # "not_connected"
        /\ Dispatched => last.stmt.handle = globalDB

\* C6: at most one database handle is open.
C6_AtMostOneOpenHandle == Cardinality(OpenHandles) <= 1

\* when the line after a successful .connect is read on a terminal, the last
\* used database is the database of the connection just installed
LastUsedIsConnected ==
    (terminal /\ pc = "read" /\ last.outcome = "connect_ok" /\ ConnectedMidSession)
    => lastUsedDB = handles[globalDB].database

\* C7: after each successful .connect the last used database is the database
\* of the connection just installed, and a failed .connect leaves the last
\* used database as it was.
C7_LastUsedFollowsConnect ==
    /\ []LastUsedIsConnected
    /\ [][(pc = "read" /\ last'.outcome = "connect_error")
            => lastUsedDB' = lastUsedDB]_vars

\* C8: a batch labelled non-Query goes through db.Exec once, never through
\* db.Query, and printResults gets hasRows = false and no rows.
C8_NonQueryUsesExec ==
    (last.stmt.class = "NonQuery") =>
        /\ last.stmt.execs = 1
        /\ last.stmt.queries = 0
        /\ last.stmt.printed => (~last.stmt.hasRows /\ last.stmt.rows = 0)

\* C8, witness: a batch of two statements, a SELECT and a USE, was executed
\* and printed
C8_Witness ==
    /\ last.stmt.class = "NonQuery"
    /\ last.stmt.printed
    /\ last.stmt.query = <<"SelectStmt", ";", "UseStmt", ";">>

\* the label of one statement on its own
Alone(stmt) == Classify(<<stmt, ";">>)

\* C9: a batch that parses is a Query if and only if every statement of it
\* is a Query on its own.
C9_QueryIffAllQueries ==
    (last.stmt.class \in {"Query", "NonQuery"}) =>
        LET stmts == Parse(last.stmt.query).stmts IN
        (last.stmt.class = "Query") <=> (\A i \in 1..Len(stmts) : Alone(stmts[i]) = "Query")

\* C9, witness: a batch whose first statement is a Query and whose second is
\* not was labelled
C9_Witness ==
    /\ last.stmt.class = "NonQuery"
    /\ Len(Parse(last.stmt.query).stmts) = 2
    /\ Alone(Parse(last.stmt.query).stmts[1]) = "Query"

\* C10: a buffered batch that does not parse reaches neither db.Query nor
\* db.Exec, and the REPL gets the error.
C10_ParseErrorIssuesNothing ==
    (last.stmt.class = "ParseError") =>
        /\ last.stmt.queries = 0
        /\ last.stmt.execs = 0
        /\ last.stmt.err = "parse"
        /\ last.outcome = "stmt_error"
        /\ ~last.stmt.printed

\* C10, witness: a batch of two lines, the second rejected by the grammar,
\* was dispatched
C10_Witness ==
    /\ last.stmt.class = "ParseError"
    /\ last.stmt.query = <<"SelectStmt", "\n", "?", ";">>

\* C11: a batch that parses and holds a USE or a SET statement is labelled
\* non-Query and goes through db.Exec once, never through db.Query.
C11_UseSetAreNonQuery ==
    LET r == Parse(last.stmt.query) IN
    (~r.err /\ \E i \in 1..Len(r.stmts) : r.stmts[i] \in UseSetKinds) =>
        /\ last.stmt.class = "NonQuery"
        /\ last.stmt.execs = 1
        /\ last.stmt.queries = 0

\* C11, witness: a batch of a SELECT and a SET was executed
C11_Witness ==
    /\ last.stmt.query = <<"SelectStmt", ";", "SetStmt", ";">>
    /\ last.outcome = "stmt_ok"
    /\ last.stmt.execs = 1

\* the last step dispatched a line to OutputFormatCmd with exactly one
\* argument that is a format name
ValidFormatLine(l) ==
    /\ l.handler = ".output_format"
    /\ Len(l.cmd) = 2
    /\ l.cmd[2] \in Formats

\* C16: the output format changes only by .output_format with exactly one
\* argument that is a format name, and is then that format (so a second
\* invocation with the same name changes nothing); with no argument it
\* returns nil and with an unknown name or several arguments an error (the
\* error of an unknown name holds the name), and the format stays.
C16_FormatChangesOnlyByValidName ==
    /\ [][globalOutputFormat' # globalOutputFormat => ValidFormatLine(last')]_vars
    /\ [][(pc = "read" /\ last'.handler = ".output_format") =>
            IF ValidFormatLine(last')
            THEN globalOutputFormat' = last'.cmd[2] /\ last'.outcome = "cmd_ok"
            ELSE /\ globalOutputFormat' = globalOutputFormat
                 /\ Len(last'.cmd) = 1 => last'.outcome = "cmd_ok"
                 /\ Len(last'.cmd) = 2 =>
                        /\ last'.outcome = "cmd_error"
                        /\ last'.err[Len(last'.err)] = last'.cmd[2]
                 /\ Len(last'.cmd) > 2 => last'.outcome = "cmd_error"]_vars

\* C16, witness: .output_format xml was rejected while the format was json
C16_Witness ==
    /\ last.cmd = <<".output_format", "xml">>
    /\ last.outcome = "cmd_error"
    /\ globalOutputFormat = "json"

\* C17: a suggestion pre-fills one prompt: once that prompt has returned a
\* line, the slot is empty at the next prompt, whatever the line was, unless
\* the line was an .ask that set it again; and the slot becomes non-empty
\* only by .ask.
C17_SuggestionFillsOnePrompt ==
    /\ []((pc = "prompt" /\ replSuggestion # "") =>
            (last.handler = ".ask" /\ last.outcome = "cmd_ok"))
    /\ [][(pc = "read" /\ pc' # "done") =>
            (replSuggestion' = "" \/ last'.handler = ".ask")]_vars
    /\ [][(replSuggestion' # replSuggestion /\ replSuggestion' # "") =>
            last'.handler = ".ask"]_vars

\* C17, witness: a dot-command was typed at a prompt that a suggestion
\* pre-filled, and the next prompt is about to be shown
C17_Witness ==
    /\ pc = "prompt"
    /\ last.suggested # ""
    /\ last.handler = ".help"
    /\ replSuggestion = ""

\* the documented dot-commands
DocumentedCmds ==
    {".help", ".ver", ".refresh_completion", ".connect", ".output_format",
     ".ask", ".lua-eval", ".lua-eval-file"}

UnknownCmdLine(l) ==
    /\ l.cmd # <<>>
    /\ \A i \in 1..Len(RegisteredSystemCmds) : RegisteredSystemCmds[i] # l.cmd[1]

\* C20: a line whose name matches no registered command gets the notice and
\* no error, and leaves the connection, the last used database, the output
\* format and the statement buffer as they were and the suggestion slot as
\* the read of the line left it (empty).
C20_UnknownCmdChangesNothing ==
    /\ [](UnknownCmdLine(last) =>
            /\ last.outcome = "cmd_unknown"
            /\ last.err = <<>>
            /\ last.handler = "")
    /\ [][(pc = "read" /\ UnknownCmdLine(last')) =>
            /\ UNCHANGED <<handles, globalDB, lastUsedDB, startupDB, db, curDB>>
            /\ UNCHANGED <<globalOutputFormat, queryBuilder>>
            /\ replSuggestion' = ""
            /\ pc' = "prompt"]_vars

\* C20, witness: .bogus was typed while a statement was being accumulated
C20_Witness ==
    /\ last.cmd = <<".bogus">>
    /\ last.outcome = "cmd_unknown"
    /\ queryBuilder # <<>>

(* what a reader of the rendered text sees *)

\* the text without the new line that ends it
Chomp(text) ==
    IF text # <<>> /\ text[Len(text)] = "\n" THEN SubSeq(text, 1, Len(text) - 1) ELSE text

\* the pieces of text between the separators
RECURSIVE SplitAt(_, _, _)
SplitAt(text, sep, cur) ==
    IF text = <<>> THEN <<cur>>
    ELSE IF Head(text) = sep THEN <<cur>> \o SplitAt(Tail(text), sep, <<>>)
    ELSE SplitAt(Tail(text), sep, Append(cur, Head(text)))

\* the lines of a text whose lines end with a new line
Lines(text) == IF text = <<>> THEN <<>> ELSE SplitAt(Chomp(text), "\n", <<>>)

\* the fields of a CSV line whose values hold no comma
Fields(line) == SplitAt(line, ",", <<>>)

\* a value in one pair of double quotes, the quotes inside doubled
Wrapped(s) == <<Quote>> \o ReplaceAll(s, Quote, <<Quote, Quote>>) \o <<Quote>>

\* each doubled quote replaced by a single one
RECURSIVE Undouble(_)
Undouble(s) ==
    IF s = <<>> THEN <<>>
    ELSE IF Len(s) >= 2 /\ s[1] = Quote /\ s[2] = Quote
    THEN <<Quote>> \o Undouble(SubSeq(s, 3, Len(s)))
    ELSE <<Head(s)>> \o Undouble(Tail(s))

\* the outer quotes stripped once, then the doubled quotes undone
Unescape(field) ==
    Undouble(IF Len(field) >= 2 /\ field[1] = Quote /\ field[Len(field)] = Quote
             THEN SubSeq(field, 2, Len(field) - 1)
             ELSE field)

\* the status line or object of a format for n affected rows
DocumentedStatus(format, n) ==
    CASE format = "json" ->
            <<"{\"status\": \"OK\", \"affected_rows\": ">> \o Itoa(n) \o <<"}">>
      [] format = "csv" -> <<"status,affected_rows", "\n", "OK,">> \o Itoa(n)
      [] OTHER -> <<"OK, affected_rows:", " ">> \o Itoa(n)

\* a rendering has been finalized
Finalized == pc = "rendered"

\* C12: finalized with zero rows, every renderer has written the status line
\* or object of its format for a non-Query, and for a Query an empty
\* representation that is no status line, which is [] for JSON.
C12_ZeroRowsRendered ==
    (Finalized /\ Len(render.output) = 0) =>
        IF ~render.isQ
        THEN Chomp(sink) = DocumentedStatus(render.outputFormat, render.affectedRows)
        ELSE /\ sink # <<>>
             /\ \A n \in 0..MaxRows :
                    Chomp(sink) # DocumentedStatus(render.outputFormat, n)
             /\ render.outputFormat = "json" => Chomp(sink) = <<"[", "]">>

\* the data lines of a finalized CSV rendering of a Query with rows: the
\* last lines of the text, one for each row
DataLines ==
    LET lines == Lines(sink)
        n == Len(render.output)
    IN  IF Len(lines) < n THEN <<>> ELSE SubSeq(lines, Len(lines) - n + 1, Len(lines))

CSVWithRows ==
    Finalized /\ render.outputFormat = "csv" /\ Len(render.output) >= 1

\* C13: in CSV, the field written for a string value is the value in one
\* pair of double quotes with the quotes inside doubled, and stripping the
\* outer quotes once and undoing the doubling gives the value back.
C13_CSVStringRoundTrip ==
    CSVWithRows =>
        /\ Len(DataLines) = Len(render.output)
        /\ \A i \in 1..Len(DataLines) :
              LET v == render.output[i].colValues[1]
                  field == Fields(DataLines[i])[1]
              IN  v.type = "string" =>
                      (field = Wrapped(v.s) /\ Unescape(field) = v.s)

\* C14: in CSV, a Query with n >= 1 rows is rendered as the line of the
\* column names joined by commas and then n data lines, one for each row in
\* the order of the fetch.
C14_CSVHeaderAndRows ==
    CSVWithRows =>
        LET lines == Lines(sink) IN
        /\ Len(lines) = Len(render.output) + 1
        /\ lines[1] = <<"a", ",", "b">>
        /\ \A i \in 1..Len(render.output) :
              LET v == render.output[i].colValues
                  fields == Fields(lines[i + 1])
              IN  /\ Len(fields) = 2
                  /\ Unescape(fields[1]) = v[1].s
                  /\ fields[2] = v[2].s

\* C15: after the Write calls and the Flush of JSONResultIOWriter the text is
\* one JSON array: "[", the objects of the rows in the order written, with
\* one comma between two of them, and "]", also when no row was written.
C15_JSONWriterOneArray ==
    (Finalized /\ render.via = "JSONResultIOWriter") =>
        sink = <<"[">>
               \o Join([i \in 1..Len(render.output) |-> MarshalJSON(render.output[i])], ",")
               \o <<"]">>

\* C18: sql.query and sql.execute raise no Lua error; with no connection, or
\* when a call of the driver fails at any step, the table they return has
\* ok = false and a non-empty error, and else ok = true and error = "".
C18_SQLFailuresReported ==
    sqlResult.fn # "" =>
        /\ ~sqlResult.raised
        /\ sqlResult.failed # "" => (~sqlResult.ok /\ sqlResult.error # "")
        /\ sqlResult.failed = "" => (sqlResult.ok /\ sqlResult.error = "")

\* C21: a connect tries first with TLS and tries without TLS only after
\* the attempt with TLS failed, and then once: at most two attempts.  A
\* statement that fails starts no connect and is issued once.
C21_TLSFirstPlainOnce ==
    /\ [](LET a == last.attempts IN
          /\ Len(a) <= 2
          /\ Len(a) >= 1 => a[1].useTLS
          /\ Len(a) = 1 => a[1].ok
          /\ Len(a) = 2 => (~a[1].ok /\ ~a[2].useTLS))
    /\ [](last.outcome \in {"connect_ok", "connect_error"} /\ pc # "read"
             => last.attempts # <<>>)
    /\ [][(pc = "read" /\ last'.outcome = "stmt_error") =>
             /\ last'.attempts = <<>>
             /\ last'.stmt.queries + last'.stmt.execs <= 1
             /\ UNCHANGED <<handles, globalDB>>]_vars

\* a connect whose attempt with TLS failed and whose attempt without TLS
\* returned a handle
C21_Witness ==
    /\ Len(last.attempts) = 2
    /\ last.attempts[2].ok
    /\ last.outcome = "connect_ok"

\* C22: a connect that fails leaves the shared handle and the last used
\* database as they were, and no handle it opened is still open.
C22_FailedConnectLeavesNothing ==
    [][(pc \in {"main", "read"} /\ last'.outcome = "connect_error") =>
          /\ UNCHANGED <<globalDB, lastUsedDB>>
          /\ OpenHandles' = OpenHandles]_vars

\* C24: from a pipe, a line that is no command and does not end with ";"
\* is reported and dropped with the buffer, nothing is executed for it and
\* the loop goes on; the buffer is empty at every read from a pipe.
C24_PipedLineNotCarriedOver ==
    /\ []((~terminal /\ pc = "read") => queryBuilder = <<>>)
    /\ [][(~terminal /\ pc = "read") => last'.outcome # "appended"]_vars
    /\ [][(pc = "read" /\ last'.outcome = "pipe_error") =>
             /\ queryBuilder' = <<>>
             /\ last'.stmt = NoStmt
             /\ pc' = "prompt"]_vars

\* the read that follows a line dropped from a pipe
C24_Witness == ~terminal /\ pc = "read" /\ last.outcome = "pipe_error"

\* a step of the loop that takes a line which is no command
TakesLine == pc = "read" /\ pc' = "prompt" /\ last'.cmd = <<>>

\* C25: with no connection, a line that is no command is rejected with an
\* error: the buffer stays as it was, no statement is issued, nothing is
\* appended to the history and the loop is back at the prompt.
C25_NoConnectionRejectsLine ==
    /\ [](pc \in {"prompt", "read"} /\ globalDB = Nil => db = Nil)
    /\ [][(TakesLine /\ globalDB = Nil) =>
             /\ last'.outcome = "not_connected"
             /\ UNCHANGED queryBuilder
             /\ last'.stmt = NoStmt
             /\ last'.appended = <<>>]_vars

\* a line was rejected for want of a connection
C25_Witness == pc = "prompt" /\ globalDB = Nil /\ last.outcome = "not_connected"

C28_HistoryAfterParse ==
    [][(pc = "read" /\ last'.outcome \in {"stmt_ok", "stmt_error"}) =>
          IF last'.stmt.class = "ParseError"
          THEN last'.appended = <<>>
          ELSE last'.appended = <<last'.stmt.query>>]_vars

\* C29: on a terminal the buffer grows by each line that is no command and
\* its new line, in the order typed, nothing else changes it, and the text
\* of a dispatch is the trimmed buffer with the last line; the buffer is
\* empty after it.
C29_DispatchTextIsLinesTyped ==
    /\ [][(terminal /\ pc = "read" /\ last'.typed) =>
             IF last'.outcome = "appended"
             THEN queryBuilder' = queryBuilder \o last'.input \o <<"\n">>
             ELSE /\ last'.stmt.query =
                        TrimSpace(queryBuilder \o last'.input \o <<"\n">>)
                  /\ queryBuilder' = <<>>]_vars
    /\ [][(terminal /\ ~(pc = "read" /\ last'.typed)) => UNCHANGED queryBuilder]_vars
    /\ [][(terminal /\ TakesLine /\ db # Nil) => last'.typed]_vars
    /\ [](pc = "main" => queryBuilder = <<>>)

\* a dispatch of two lines typed on a terminal
C29_Witness ==
    /\ terminal
    /\ last.typed
    /\ last.outcome = "stmt_ok"
    /\ last.stmt.query = <<"SelectStmt", "\n", ";">>

\* C23: the animation writes no frame once the main goroutine is past the
\* stop signal: in the text written, every frame comes before the sequence
\* that clears the line, and that sequence before the answer.
C23_NoFrameAfterStop ==
    /\ [](pc \in {"answer", "prompt"} => anim = "returned")
    /\ [](\A i, j \in 1..Len(sink) :
             i < j => /\ sink[j] # "frame" \/ sink[i] = "frame"
                      /\ sink[j] = "answer" => sink[i] # "answer")
    /\ [](\A j \in 1..Len(sink) : sink[j] = "answer" => (j > 1 /\ sink[j - 1] = "clear"))

\* the answer was written after frames of the animation
C23_Witness ==
    /\ pc = "prompt"
    /\ Len(sink) >= 3
    /\ sink[1] = "frame"
    /\ sink[Len(sink)] = "answer"

\* C30: every read and every write of the shared handle and of the last
\* used database is made holding globalDBLock, shared for a read and
\* exclusive for a write, and no goroutine holds it across a query, an
\* exec or a connect.
C30_AccessUnderGuard ==
    /\ access.kind = "read" => access.held \in {"shared", "exclusive"}
    /\ access.kind = "write" => access.held = "exclusive"
    /\ \A g \in Goroutines : goroutine[g].at = "call" => goroutine[g].held = "none"

\* the texts of the arguments as they were written
ArgTexts(typedArgs) == [i \in 1..Len(typedArgs) |-> typedArgs[i].text]

\* C26: the arguments typed after the script of .lua-eval reach the script:
\* each one, written in double quotes or not, is parsed to its text without
\* the quotes, in the order written; the script runs with the global args
\* holding the parsed arguments; and the call of .lua-eval is never stuck
\* before it has set args.
C26_QuotedArgDelivered ==
    /\ \A typedArgs \in TypedArgLists : parseLuaArgs(Written(typedArgs)) = ArgTexts(typedArgs)
    /\ pc = "DoString" => luaArgs = callArgs
    /\ (last.handler = ".lua-eval" /\ last.outcome = "script" /\ callArgs # <<>>
           /\ pc # "DoString")
          => ENABLED GetLuaStateStep

\* a request answered from the cache: no query, and the list fetched before
FromCache(r, f) == r.called /\ f.done => (~r.query /\ r.list = f.list)

\* C31: once the database list, or the table or column list of a database,
\* has been fetched, every later completion request for it is answered with
\* no metadata query and with the list that was fetched, whatever that list
\* held and whatever commands ran in between.
C31_FetchedListsComeFromCache ==
    [][last'.outcome = "completed" /\ pc = "read" =>
          /\ FromCache(last'.completion.databases, fetched.databases)
          /\ FromCache(last'.completion.tables, fetched.tables[curDB])
          /\ FromCache(last'.completion.cols, fetched.cols[curDB])]_vars

C33_WaitLoopCoversCallbacks ==
    /\ event_loop.at = "left" => event_loop.removed = event_loop.tasks
    /\ (event_loop.at = "run" /\ \A w \in Workers : worker[w] = "idle")
          => event_loop.pending_tasks = 0

\* C34: in the result of a successful sql.query, row_count is the number of
\* rows of data, data holds exactly the rows fetched, in fetch order, at
\* 1..row_count, columns holds the column names in the order of the query,
\* and the row at index r gives, at the index of each column, the value
\* fetched for that column (nil for NULL) and holds nothing else.
C34_QueryResultShape ==
    (sqlResult.fn = "query" /\ sqlResult.ok) =>
        /\ sqlResult.row_count \in 0..Len(server.rows)
        /\ DOMAIN sqlResult.data = 1..sqlResult.row_count
        /\ DOMAIN sqlResult.columns = 1..Len(server.columns)
        /\ \A i \in 1..Len(server.columns) :
              sqlResult.columns[i].type = "LString"
              /\ sqlResult.columns[i].v = server.columns[i]
        /\ \A r \in 1..sqlResult.row_count :
              /\ DOMAIN sqlResult.data[r] \subseteq 1..Len(server.columns)
              /\ \A i \in 1..Len(server.columns) :
                    RawGetInt(sqlResult.data[r], i) = luaValue(server.rows[r][i])

\* a query that fetched two different rows of two columns, one value NULL
C34_Witness ==
    /\ sqlResult.fn = "query" /\ sqlResult.ok
    /\ sqlResult.row_count = 2
    /\ Len(server.columns) = 2
    /\ server.rows[1] # server.rows[2]
    /\ server.rows[2][1].type = "nil"

\* AskCmd.Handle is running
InAsk == pc \in {"ask", "asking", "send", "answer"}

\* what refineQuestion asks the database
MetadataQueries == {"SELECT DATABASE()", "SHOW TABLES", "SHOW CREATE TABLE"}

\* C35: .ask sends no SQL block of the answer to the database (all it sends
\* are the metadata queries of refineQuestion, before the answer exists, and
\* no statement is dispatched); the block chosen in the selection becomes
\* the suggestion; and .ask leaves the statement buffer, the output format
\* and the shared connection handle as they were.
C35_AskOnlySuggests ==
    /\ [](last.handler = ".ask" =>
            /\ \A i \in 1..Len(last.sent) : last.sent[i] \in MetadataQueries
            /\ last.stmt = NoStmt)
    /\ [][InAsk => UNCHANGED <<queryBuilder, globalOutputFormat, globalDB, handles>>]_vars
    /\ [][(pc = "answer" /\ last'.suggested # "") => replSuggestion' = last'.suggested]_vars
    /\ [][(pc = "asking" /\ last'.sent # <<>>) => UNCHANGED replSuggestion]_vars

\* .ask with a connection and a statement begun: the metadata queries were
\* sent and a block was chosen
C35_Witness ==
    /\ pc = "prompt"
    /\ last.handler = ".ask"
    /\ last.outcome = "cmd_ok"
    /\ Len(last.sent) = 3
    /\ last.suggested = "sql"
    /\ queryBuilder # <<>>
    /\ globalDB # Nil

\* a line with each run of spaces replaced by one space
RECURSIVE Squeeze(_)
Squeeze(s) ==
    IF Len(s) < 2 THEN s
    ELSE IF s[1] = " " /\ s[2] = " " THEN Squeeze(Tail(s))
    ELSE <<Head(s)>> \o Squeeze(Tail(s))

\* C36: the argument list handleCmd hands to a command holds no empty
\* token, and the command and the arguments of a line are those of the same
\* line with single spaces.
C36_NoEmptyToken ==
    last.outcome = "split" =>
        /\ \A i \in 2..Len(last.cmd) : last.cmd[i] # <<>>
        /\ LET r == splitLine(Squeeze(last.input)) IN
           last.cmd = <<r.cmdName>> \o r.params

\* C37: once AskCmd.Handle has started loadingAnimation, on the path with an
\* answer and on the path with a failed request, its send on done does not
\* block for ever, and when Handle returns the goroutine of loadingAnimation
\* has returned.
C37_AnimationStopped ==
    /\ [](pc = "prompt" /\ last.handler = ".ask" => anim = "returned")
    /\ [](pc = "answer" => anim = "returned")
    /\ (pc = "asking" ~> pc = "prompt")
    /\ (pc = "send" ~> (pc # "send" /\ anim = "returned"))

\* Handle has returned the error of a failed request, after frames
C37_Witness ==
    /\ pc = "prompt"
    /\ last.handler = ".ask"
    /\ last.outcome = "cmd_error"
    /\ anim = "returned"
    /\ sink # <<>>

\* C38: at most one interpreter exists, and one exists exactly when
\* globalLuaState is set; sql and http are registered in it once;
\* InitializeLuaState with an interpreter leaves it and its globals as they
\* are; the globals a script has set stay until CloseLuaState; and an
\* interpreter created after CloseLuaState has none of them.
C38_OneInterpreter ==
    /\ [](interp.alive <= 1 /\ (interp.alive = 1 <=> globalLuaState = "open"))
    /\ [](interp.registered = interp.alive)
    /\ [](globalLuaState = "nil" => interp.globals = {} /\ luaArgs = <<>>)
    /\ [][globalLuaState = "open" /\ globalLuaState' = "open" =>
            /\ interp.globals \subseteq interp'.globals
            /\ interp'.alive = interp.alive
            /\ interp'.registered = interp.registered]_vars
    /\ [][globalLuaState = "nil" /\ globalLuaState' = "open" => interp'.globals = {}]_vars

\* a script is about to run in the interpreter in which an earlier one set
\* a global and was given arguments, after InitializeLuaState was called with
\* that interpreter
C38_Witness ==
    /\ pc = "GetLuaState"
    /\ luaRet = "host"
    /\ interp.again
    /\ "x" \in interp.globals
    /\ luaArgs # <<>>

\* the character at i follows a backslash that is not itself escaped
RECURSIVE EscapedAt(_, _)
EscapedAt(s, i) == i > 1 /\ s[i - 1] = "\\" /\ ~EscapedAt(s, i - 1)

\* the character at i is inside double quotes: the number of double quotes
\* before it that are not escaped is odd
QuotedAt(s, i) ==
    Cardinality({j \in 1..(i - 1) : s[j] = Quote /\ ~EscapedAt(s, j)}) % 2 = 1

\* what the character at i is to the tokenizer: part of an argument, the end
\* of an argument, or a mark that is not part of any
RoleAt(s, i) ==
    IF EscapedAt(s, i) THEN "literal"
    ELSE IF s[i] \in {"\\", Quote} THEN "mark"
    ELSE IF s[i] = " " /\ ~QuotedAt(s, i) THEN "end"
    ELSE "literal"

\* the arguments of a text by the roles of its characters: the marks are
\* taken out, the text is cut at the ends, and the empty pieces are dropped
ArgsByRole(s) ==
    LET roles == [i \in 1..Len(s) |-> [ch |-> s[i], role |-> RoleAt(s, i)]]
        kept == SelectSeq(roles, LAMBDA c : c.role # "mark")
        chars == [i \in 1..Len(kept) |-> IF kept[i].role = "end" THEN "end" ELSE kept[i].ch]
    IN SelectSeq(Split(chars, "end"), LAMBDA piece : piece # <<>>)

\* the number of double quotes in the arguments
RECURSIVE QuotesIn(_)
QuotesIn(parsedArgs) ==
    IF parsedArgs = <<>> THEN 0
    ELSE Cardinality({i \in 1..Len(Head(parsedArgs)) : Head(parsedArgs)[i] = Quote})
         + QuotesIn(Tail(parsedArgs))

\* C39: the tokenizer of .lua-eval returns no error, no empty argument and
\* no double quote but the escaped ones of the text; without a backslash
\* and a double quote in the text its arguments are the non-empty pieces
\* between the spaces; a character after a backslash is part of an argument
\* as it is, a backslash at the end and a double quote that is not closed are
\* taken out: the arguments are those the roles of the characters give.
C39_TokenizerArguments ==
    last.outcome = "parsed" =>
        LET argsPart == last.input
            parsedArgs == last.cmd
        IN /\ last.err = <<>>
           /\ \A i \in 1..Len(parsedArgs) : parsedArgs[i] # <<>>
           /\ QuotesIn(parsedArgs)
                 = Cardinality({i \in 1..Len(argsPart) :
                                  argsPart[i] = Quote /\ EscapedAt(argsPart, i)})
           /\ (\A i \in 1..Len(argsPart) : argsPart[i] \notin {"\\", Quote})
                 => parsedArgs = SelectSeq(Split(argsPart, " "), LAMBDA piece : piece # <<>>)
           /\ parsedArgs = ArgsByRole(argsPart)

\* an escaped space, then a double quote that is not closed with an escaped
\* double quote in it, give the one argument of a space and a double quote
C39_Witness ==
    /\ last.outcome = "parsed"
    /\ last.input = <<"\\", " ", Quote, "\\", Quote>>
    /\ last.cmd = <<<<" ", Quote>>>>

====
